---------------------------- MODULE Spec2Model ----------------------------
(***************************************************************************)
(* A model of the flow dataflow runtime (thierryseegers/flow):             *)
(*   - flow::pipe                    src/include/pipe.h                    *)
(*   - flow::inpin / flow::outpin    src/include/node.h                    *)
(*   - flow::producer / consumer     src/include/node.h (execution loops)  *)
(*   - flow::graph                   src/include/graph.h                   *)
(*   - produce_n / counters          src/tests/counted.h                   *)
(*   - tee, delay, generator,        src/include/samples/generic.h         *)
(*     ostreamer                                                           *)
(*   - adder                         src/include/samples/math.h            *)
(*   - timer / monotonous_timer      src/timer.h                           *)
(*   - pusher / popper               src/tests/manual.h                    *)
(*                                                                         *)
(* Fifteen specifications share the variables:                             *)
(*   SpecPipe   one pipe object driven through its own interface           *)
(*   SpecFifo   one outpin and one inpin joined by a pipe, a pushing and   *)
(*              a popping thread                                           *)
(*   SpecPins   pins connected, disconnected, pushed to and popped from    *)
(*   SpecGraph  a graph whose nodes run on their own workers               *)
(*   SpecQuiet  the graphs of SpecGraph whose nodes push nothing, under    *)
(*              fair scheduling                                            *)
(*   SpecWire   nodes added, removed, connected and disconnected through   *)
(*              the graph, none of them started                            *)
(*   SpecTee    a source, a tee and two counters, run three times with     *)
(*              the counters disconnected and connected in between         *)
(*   SpecFlow   a started graph around a tee, an adder or a delay, fed by  *)
(*              pushers and emptied by poppers, and the clock              *)
(*   SpecClock  a timer on its thread, a generator that listens to it      *)
(*   SpecStream an ostreamer, its sleeping thread and the clock            *)
(*   SpecFair   source, transformer and counter left started, under fair   *)
(*              scheduling                                                 *)
(*   SpecLocks  a push, the consumer's loop and a transition, one step     *)
(*              for each lock taken                                        *)
(*   SpecCycle  source, transformer and counter started, paused, stopped   *)
(*              and started again, under fair scheduling                   *)
(*   SpecVisit  the worker of a consumer with two inpins, its lock and     *)
(*              its calls of ready                                         *)
(*   SpecRemove the graph of SpecCycle with nodes removed while it runs    *)
(***************************************************************************)
EXTENDS Integers, Sequences, FiniteSets, TLC

VARIABLES
    pipes,      \* the heap of pipe objects: pipe id -> pipe record
    pin_pipe,   \* pin<T>::d_pipe_sp of every pin: a pipe id or NoPipe
    tsize,      \* sizeof(T) of the element type the pipes carry
    call,       \* the last call made on a pipe or a pin, with its arguments;
                \* SpecTee: where the owning thread is in the test
    ret,        \* what that call returned, or how it ended
    pre,        \* SpecPipe: the pipe as the last call found it
    pushed,     \* history: the packets pipe::push appended, in order
    popped,     \* history: the packets pop returned, in order
    status,     \* the thread that calls the pins: running, crashed or deadlock
    nconnect,   \* how many times outpin::connect was called
    d_producers,    \* graph::d_producers: the names of the pure producers
    d_transformers, \* graph::d_transformers
    d_consumers,    \* graph::d_consumers
    d_threads,      \* graph::d_threads: the names that have a thread
    connections,    \* graph::connections: name -> pin -> <<name, pin>>
    d_state_a,      \* node::d_state_a of every node
    wpc,            \* where the worker of every node is in operator()()
    ws,             \* the local s of operator()()
    held,           \* the packet a worker holds between a pop and a push
    woken,          \* a notify_one reached the waiting worker
    n_left,         \* produce_n::n
    r,              \* produce_n::r, the N the source was built with
    dummy,          \* the nodes are the dummies of tests/dummies.h
    received,       \* the counters' received[i]
    op,             \* the graph call the owning thread is in, or idle
    last,           \* the graph call that returned last
    todo,           \* the nodes the call has still to visit, in order
    joining,        \* stop(): the node whose thread is being joined
    tlog,           \* history: the nodes the call has transitioned, in order
    phase,          \* build, run or done (the graph is destroyed)
    ncalls,         \* how many times start, pause or stop were called
    now,            \* the reading of the clocks
    d_stop_cr,      \* timer::d_stop_cr
    tpc,            \* where the timer's thread is in operator()()
    t_wake,         \* the time the timer's sleep ends
    fired,          \* history: how often each listener was called
    ticks,          \* history: the calls of timer_fired while started
    d_awaken_m,     \* generator::d_awaken_m or ostreamer::d_awaken_m
    d_sleep_t,      \* ostreamer::d_sleep_t: none, sleeping or finished
    s_until,        \* the time_r of ostreamer::sleep
    d_o_r,          \* history: what was streamed to d_o_r, and when
    taken,          \* history: what ready() popped while started, and when
    locked,         \* the mutexes each thread holds, in the order it took them
    lpc,            \* SpecLocks: where each thread is
    hooks,          \* history: the started(), paused(), stopped() called;
                    \* SpecVisit: the i of every ready(i) called
    live            \* per node: the threads that run its operator()()

pipevars == <<pipes, pin_pipe, tsize>>

\* what the sample nodes and the timer add to the state
clockvars == <<d_stop_cr, tpc, t_wake, fired, ticks>>

streamvars == <<d_awaken_m, d_sleep_t, s_until, d_o_r, taken>>

lockvars == <<locked, lpc, hooks>>

samplevars == <<now, clockvars, streamvars, lockvars, live>>

obsvars == <<call, ret, pre, pushed, popped>>

callervars == <<status, nconnect>>

graphvars == <<d_producers, d_transformers, d_consumers, d_threads, connections>>

nodevars == <<d_state_a, n_left, r, dummy, received>>

workervars == <<wpc, ws, held, woken>>

mainvars == <<op, last, todo, joining, tlog, phase, ncalls>>

\* what the specifications without a graph leave alone
GraphIdle == <<graphvars, nodevars, workervars, mainvars>>

vars == <<pipevars, obsvars, callervars, GraphIdle, samplevars>>

-----------------------------------------------------------------------------
(* Bounds of the model.                                                    *)

\* the largest number of packets the model lets an uncapped pipe queue
MaxQueue == 3
\* packets carry a value of 1..MaxData
MaxData == 2
\* caps given to cap_length and to the constructor are 0..MaxCapLength
MaxCapLength == 2
\* the longest push history SpecFifo follows
MaxPushes == 4
\* d_weight is followed up to this value (flush leaves it to grow)
MaxWeight == 12
\* SpecPins follows this many calls of outpin::connect
MaxConnects == 3
\* produce_n is built with an N of 0..MaxN
MaxN == 2
\* SpecGraph follows this many calls of start, pause and stop before the
\* graph is destroyed
MaxCalls == 3
\* SpecFlow follows this many calls of pusher::push
MaxFlowPushes == 3
\* the clocks are read up to this time
MaxTime == 2
\* a timer has up to this many listeners
MaxListeners == 2
\* SpecLocks follows this many transitions of the consumer
MaxHooks == 3
\* SpecGraph follows this many calls of graph::connect
MaxGraphConnects == 2
\* the largest number of packets SpecPins lets a pipe queue
MaxPinQueue == 2

\* the largest number of packets SpecWire lets a pipe queue
MaxWireQueue == 1

(* Program constants.                                                      *)

\* sizeof(char), the element of the max_weight test
SizeofChar == 1
\* sizeof(int), the element of every other test
SizeofInt == 4
\* sizeof(std::string), the element of the add<string> test
SizeofString == 32
\* the offset the add_delay test gives its delay: one second
d_offset == 1
\* the interval the monotonous_timer is built with, the unit of the clock
d_interval == 1

\* the weight caps tried: uncapped, and caps that some, but not all, of the
\* MaxQueue packets of either element type fit under
WeightCaps == {0, 1, 2, SizeofInt, 2 * SizeofInt + 1}

\* an empty d_pipe_sp (pipe objects are numbered from 1)
NoPipe == 0
\* a null pin pointer
NoPin == [node |-> "null", dir |-> "null", idx |-> 0]
\* the empty unique_ptr pop returns when there is nothing to return
NoPacket == [data |-> -1, consumption_time |-> 0]

-----------------------------------------------------------------------------
(* flow::packet<T>                                                         *)

\* packet(T data, consumption_time = time_point_type()): 0 is the default
\* constructed time_point, "no consumption time"
packet(data) == [data |-> data, consumption_time |-> 0]

\* packet<T>::size()
size(pkt) == tsize

Packets == {packet(d) : d \in 1..MaxData}

-----------------------------------------------------------------------------
(* flow::pipe<T>, as operators from a pipe record to a pipe record.        *)

RECURSIVE SumSizes(_)
\* the sum of size() over a sequence of packets
SumSizes(s) == IF s = <<>> THEN 0 ELSE size(Head(s)) + SumSizes(Tail(s))

\* pipe(name_r, output_p, input_p, max_length, max_weight)
pipe(name_r, output_p, input_p, max_len, max_wgt) ==
    [name         |-> name_r,
     d_packets    |-> <<>>,
     d_input_p    |-> output_p,
     d_output_p   |-> input_p,
     d_max_length |-> max_len,
     d_max_weight |-> max_wgt,
     d_weight     |-> 0]

length(p) == Len(p.d_packets)

weight(p) == p.d_weight

max_length(p) == p.d_max_length

max_weight(p) == p.d_max_weight

cap_length(p, n) == [p EXCEPT !.d_max_length = n]

cap_weight(p, n) == [p EXCEPT !.d_max_weight = n]

\* flush(): d_packets.clear(); d_weight is not touched
flush(p) == [p EXCEPT !.d_packets = <<>>]

\* a push that would test the weight cap alone
pipe_push_refused_by_weight(p, pkt) ==
    p.d_max_weight # 0 /\ p.d_weight + size(pkt) > p.d_max_weight

\* the two early returns of pipe::push
pipe_push_refused(p, pkt) ==
    \/ p.d_max_length # 0 /\ Len(p.d_packets) = p.d_max_length
    \/ p.d_max_weight # 0 /\ p.d_weight + size(pkt) > p.d_max_weight

\* a push that would put the packet at the front of the queue
pipe_push_front(p, pkt) ==
    IF pipe_push_refused(p, pkt) THEN p
    ELSE [p EXCEPT !.d_weight = @ + size(pkt), !.d_packets = <<pkt>> \o @]

\* the pipe after push(packet_p)
pipe_push(p, pkt) ==
    IF pipe_push_refused(p, pkt) THEN p
    ELSE [p EXCEPT !.d_weight = @ + size(pkt), !.d_packets = Append(@, pkt)]

\* what pop() returns
pipe_pop_result(p) ==
    IF Len(p.d_packets) = 0 THEN NoPacket ELSE Head(p.d_packets)

\* a pop() that would drop every queued packet along with the first
pipe_pop_all(p) ==
    [p EXCEPT !.d_packets = <<>>, !.d_weight = 0]

\* the pipe after pop()
pipe_pop(p) ==
    IF Len(p.d_packets) = 0 THEN p
    ELSE [p EXCEPT !.d_packets = Tail(@), !.d_weight = @ - size(Head(p.d_packets))]

-----------------------------------------------------------------------------
(* Nodes and their pins.  A node is known by the name it was constructed   *)
(* with; producer and consumer build their pins in their constructors.     *)

\* the node objects of the model: two pure producers, one transformer, two
\* pure consumers, each with one pin per side, a tee with one inpin and
\* two outpins, an adder with two inpins and one outpin, and a delay
Nodes == {"p", "q", "t", "c", "d", "tee", "adder", "delay"}

\* producer<T>::outs(): the outs argument of the constructor
outs(n) == IF n = "tee" THEN 2 ELSE IF n \in {"p", "q", "t", "adder", "delay"} THEN 1 ELSE 0

\* consumer<T>::ins(): the ins argument of the constructor
ins(n) == IF n = "adder" THEN 2 ELSE IF n \in {"t", "c", "d", "tee", "delay"} THEN 1 ELSE 0

\* static_cast<char>('0' + i)
Digit(i) == CASE i = 0 -> "0" [] i = 1 -> "1" [] i = 2 -> "2" [] OTHER -> "?"

\* producer<T>::output(n)
output(n, k) == [node |-> n, dir |-> "out", idx |-> k]

\* consumer<T>::input(n)
input(n, k) == [node |-> n, dir |-> "in", idx |-> k]

Outpins == UNION {{output(n, k) : k \in 0..(outs(n) - 1)} : n \in Nodes}

Inpins == UNION {{input(n, k) : k \in 0..(ins(n) - 1)} : n \in Nodes}

Pins == Outpins \cup Inpins

\* named::name() of a pin: name_r + "_out" + digit, name_r + "_in" + digit
pin_name(pin) == pin.node \o "_" \o pin.dir \o Digit(pin.idx)

-----------------------------------------------------------------------------
(* The pins' side of the pipes.  A heap h is [pipes, pin_pipe]; the pin    *)
(* operations map a heap to an outcome: the heap they leave and how the    *)
(* call ended.  Every access to a pipe below is made under the mutex that  *)
(* is paired with it (lock_guard on d_pipe_sp->second), so each operation  *)
(* on one pipe is one step.                                                *)

Heap == [pipes |-> pipes, pin_pipe |-> pin_pipe]

\* how a call ends: it returns, or the thread is lost to undefined behaviour
Returned(h) == [status |-> "returned", pipes |-> h.pipes, pin_pipe |-> h.pin_pipe]

\* a null d_pipe_sp is dereferenced, or an exception leaves the call
Crashed(h) == [status |-> "crashed", pipes |-> h.pipes, pin_pipe |-> h.pin_pipe]

\* the thread waits for a mutex it holds itself
Deadlocked(h) == [status |-> "deadlock", pipes |-> h.pipes, pin_pipe |-> h.pin_pipe]

\* named::rename on a pipe
rename(p, name_r) == [p EXCEPT !.name = name_r]

\* shared_ptr: a pipe no pin refers to any more is destroyed
Owned(ps, pp) == [id \in {k \in DOMAIN ps : \E x \in DOMAIN pp : pp[x] = k} |-> ps[id]]

\* make_shared: the new pipe object (the lowest free slot of the heap)
NewPipeId(ps) == CHOOSE k \in 1..(Cardinality(DOMAIN ps) + 1) :
                    k \notin DOMAIN ps /\ \A j \in 1..(k - 1) : j \in DOMAIN ps

\* a disconnect that would release the peer's share of the pipe as well
pin_disconnect_all(h, x) ==
    LET pp == [y \in DOMAIN h.pin_pipe |->
                 IF h.pin_pipe[y] = h.pin_pipe[x] THEN NoPipe ELSE h.pin_pipe[y]]
    IN  [pipes |-> Owned(h.pipes, pp), pin_pipe |-> pp]

\* pin<T>::disconnect(): d_pipe_sp.reset()
pin_disconnect(h, x) ==
    LET pp == [h.pin_pipe EXCEPT ![x] = NoPipe]
    IN  [pipes |-> Owned(h.pipes, pp), pin_pipe |-> pp]

\* inpin<T>::disconnect(): d_pipe_sp and the pipe's input() are dereferenced
\* without a test
inpin_disconnect(h, i) ==
    IF h.pin_pipe[i] = NoPipe THEN Crashed(h)
    ELSE LET id == h.pin_pipe[i] IN
         IF h.pipes[id].d_input_p = NoPin THEN Crashed(h)
         ELSE Returned(pin_disconnect(
                [h EXCEPT !.pipes[id] =
                    rename(@, pin_name(h.pipes[id].d_input_p) \o "_to_" \o "nothing")], i))

\* outpin<T>::disconnect(): d_pipe_sp and the pipe's output() are dereferenced
\* without a test
outpin_disconnect(h, o) ==
    IF h.pin_pipe[o] = NoPipe THEN Crashed(h)
    ELSE LET id == h.pin_pipe[o] IN
         IF h.pipes[id].d_output_p = NoPin THEN Crashed(h)
         ELSE Returned(pin_disconnect(
                [h EXCEPT !.pipes[id] =
                    rename(@, "nothing" \o "_to_" \o pin_name(h.pipes[id].d_output_p))], o))

\* the else branch of outpin<T>::connect: a new pipe, shared by both pins
connect_new(h, o, i, max_len, max_wgt) ==
    LET id == NewPipeId(h.pipes)
        p  == pipe(pin_name(o) \o "_to_" \o pin_name(i), o, i, max_len, max_wgt)
    IN  [pipes    |-> [k \in DOMAIN h.pipes \cup {id} |-> IF k = id THEN p ELSE h.pipes[k]],
         pin_pipe |-> [h.pin_pipe EXCEPT ![o] = id, ![i] = id]]

\* an adoption that would bind the connecting outpin to the pipe and leave
\* the pipe's prior outpin attached to it
connect_adopt_sharing(h, o, i, max_len, max_wgt) ==
    LET id == h.pin_pipe[i]
    IN  {Returned([pipes |-> [h.pipes EXCEPT ![id] =
                       cap_length(cap_length(
                           rename(@, pin_name(o) \o "_to_" \o @.name),
                           max_len), max_wgt)],
                   pin_pipe |-> [h.pin_pipe EXCEPT ![o] = id]])}

\* the then branch of outpin<T>::connect: the inpin has a pipe already.  The
\* mutex of that pipe is held throughout.  The outcomes are a set: locking a
\* std::mutex the thread holds is undefined, it blocks for ever or throws.
connect_adopt(h, o, i, max_len, max_wgt) ==
    LET id    == h.pin_pipe[i]
        prior == h.pipes[id].d_input_p
    IN  IF prior # NoPin /\ h.pin_pipe[prior] = id
        THEN {Deadlocked(h), Crashed(h)}
        ELSE LET h2 == IF prior # NoPin THEN outpin_disconnect(h, prior) ELSE Returned(h)
             IN  IF h2.status # "returned" THEN {h2}
                 ELSE {Returned([pipes |-> [h2.pipes EXCEPT ![id] =
                                    cap_length(cap_length(
                                        rename(@, pin_name(o) \o "_to_" \o @.name),
                                        max_len), max_wgt)],
                                 pin_pipe |-> h2.pin_pipe])}

\* a connect that would not reuse the inpin's pipe: a new pipe takes its
\* place
outpin_connect_replacing(h, o, i, max_len, max_wgt) ==
    LET h1 == IF h.pin_pipe[o] # NoPipe THEN outpin_disconnect(h, o) ELSE Returned(h)
    IN  IF h1.status # "returned" THEN {h1}
        ELSE LET h2 == connect_new(h1, o, i, max_len, max_wgt)
             IN  {Returned([pipes |-> Owned(h2.pipes, h2.pin_pipe), pin_pipe |-> h2.pin_pipe])}

\* outpin<T>::connect(inpin_r, max_length, max_weight): the set of outcomes
outpin_connect(h, o, i, max_len, max_wgt) ==
    LET h1 == IF h.pin_pipe[o] # NoPipe THEN outpin_disconnect(h, o) ELSE Returned(h)
    IN  IF h1.status # "returned" THEN {h1}
        ELSE IF h1.pin_pipe[i] # NoPipe
             THEN connect_adopt(h1, o, i, max_len, max_wgt)
             ELSE {Returned(connect_new(h1, o, i, max_len, max_wgt))}

\* a peek that would report a packet on every inpin that has a pipe
inpin_peek_attached(h, i) ==
    h.pin_pipe[i] # NoPipe

\* inpin<T>::peek()
inpin_peek(h, i) ==
    IF h.pin_pipe[i] # NoPipe THEN length(h.pipes[h.pin_pipe[i]]) # 0 ELSE FALSE

\* what inpin<T>::pop() returns
inpin_pop_result(h, i) ==
    IF h.pin_pipe[i] # NoPipe THEN pipe_pop_result(h.pipes[h.pin_pipe[i]]) ELSE NoPacket

\* the heap after inpin<T>::pop()
inpin_pop(h, i) ==
    IF h.pin_pipe[i] # NoPipe
    THEN [pipes |-> [h.pipes EXCEPT ![h.pin_pipe[i]] = pipe_pop(@)], pin_pipe |-> h.pin_pipe]
    ELSE [pipes |-> h.pipes, pin_pipe |-> h.pin_pipe]

\* the heap after outpin<T>::push(packet_p)
outpin_push(h, o, pkt) ==
    IF h.pin_pipe[o] = NoPipe THEN [pipes |-> h.pipes, pin_pipe |-> h.pin_pipe]
    ELSE [pipes |-> [h.pipes EXCEPT ![h.pin_pipe[o]] = pipe_push(@, pkt)],
          pin_pipe |-> h.pin_pipe]

\* inpin_p of outpin<T>::push: the pipe's output() if pipe::push returned
\* true, null otherwise
outpin_push_inpin_p(h, o, pkt) ==
    IF h.pin_pipe[o] = NoPipe THEN NoPin
    ELSE IF pipe_push_refused(h.pipes[h.pin_pipe[o]], pkt) THEN NoPin
         ELSE h.pipes[h.pin_pipe[o]].d_output_p

\* what outpin<T>::push returns: false without a pipe, else inpin_p == 0
outpin_push_result(h, o, pkt) ==
    IF h.pin_pipe[o] = NoPipe THEN FALSE
    ELSE outpin_push_inpin_p(h, o, pkt) = NoPin

-----------------------------------------------------------------------------
(* Nodes: node (node.h 297-371) and the maps of graph (graph.h 25-32).     *)

\* the values of state::type
States == {"paused", "started", "stopped"}

\* a graph that was constructed and holds nothing: every node is paused as
\* node::node leaves it, no thread was made
EmptyGraph ==
    /\ d_producers = {}
    /\ d_transformers = {}
    /\ d_consumers = {}
    /\ d_threads = {}
    /\ connections = [n \in {} |-> 0]
    /\ d_state_a = [n \in Nodes |-> "paused"]
    /\ wpc = [n \in Nodes |-> "none"]
    /\ live = [n \in Nodes |-> 0]
    /\ ws = [n \in Nodes |-> "paused"]
    /\ held = [n \in Nodes |-> NoPacket]
    /\ woken = [n \in Nodes |-> FALSE]
    /\ received = [n \in Nodes |-> 0]
    /\ op = "idle"
    /\ last = "none"
    /\ todo = <<>>
    /\ joining = "none"
    /\ tlog = <<>>
    /\ phase = "build"
    /\ ncalls = 0

\* the specifications of pipes and pins have no graph and no source
NoGraph ==
    /\ EmptyGraph
    /\ dummy = TRUE
    /\ r = 0
    /\ n_left = [n \in Nodes |-> 0]

\* the specifications without sample nodes and without a timer: the clock
\* is not read
NoClock ==
    /\ d_stop_cr = FALSE
    /\ tpc = "none"
    /\ t_wake = 0
    /\ fired = <<>>
    /\ ticks = 0

NoStream ==
    /\ d_awaken_m = FALSE
    /\ d_sleep_t = "none"
    /\ s_until = 0
    /\ d_o_r = <<>>
    /\ taken = <<>>

\* the threads SpecLocks follows: a pushing producer, a consumer, the owner
Threads == {"p", "c", "main", "w"}

NoLocks ==
    /\ locked = [th \in Threads |-> <<>>]
    /\ lpc = [th \in Threads |-> "none"]
    /\ hooks = <<>>

NoSamples ==
    /\ now = 0
    /\ NoClock
    /\ NoStream
    /\ NoLocks

-----------------------------------------------------------------------------
(* SpecPipe: one pipe, constructed with any caps, then driven through      *)
(* push, pop, flush, cap_length and cap_weight.  The pipe is pipes[1].     *)

ThePipe == 1

InitPipe ==
    /\ tsize \in {SizeofChar, SizeofInt}
    /\ NoSamples
    /\ \E ml \in 0..MaxCapLength, mw \in WeightCaps :
         pipes = (ThePipe :> pipe("pipe", NoPin, NoPin, ml, mw))
    /\ pin_pipe = [x \in Pins |-> NoPipe]
    /\ call = <<"pipe">>
    /\ ret = "none"
    /\ pre = pipes[ThePipe]
    /\ pushed = <<>>
    /\ popped = <<>>
    /\ status = "running"
    /\ nconnect = 0
    /\ NoGraph

PipePush(pkt) ==
    /\ length(pipes[ThePipe]) < MaxQueue
    /\ weight(pipes[ThePipe]) < MaxWeight
    /\ pre' = pipes[ThePipe]
    /\ call' = <<"push", pkt>>
    /\ ret' = ~pipe_push_refused(pipes[ThePipe], pkt)
    /\ pipes' = [pipes EXCEPT ![ThePipe] = pipe_push(@, pkt)]
    /\ UNCHANGED <<pin_pipe, tsize, samplevars, pushed, popped, callervars, GraphIdle>>

PipePop ==
    /\ pre' = pipes[ThePipe]
    /\ call' = <<"pop">>
    /\ ret' = pipe_pop_result(pipes[ThePipe])
    /\ pipes' = [pipes EXCEPT ![ThePipe] = pipe_pop(@)]
    /\ UNCHANGED <<pin_pipe, tsize, samplevars, pushed, popped, callervars, GraphIdle>>

PipeFlush ==
    /\ pre' = pipes[ThePipe]
    /\ call' = <<"flush">>
    /\ ret' = length(pipes[ThePipe])
    /\ pipes' = [pipes EXCEPT ![ThePipe] = flush(@)]
    /\ UNCHANGED <<pin_pipe, tsize, samplevars, pushed, popped, callervars, GraphIdle>>

PipeCapLength(n) ==
    /\ pre' = pipes[ThePipe]
    /\ call' = <<"cap_length", n>>
    /\ ret' = max_length(pipes[ThePipe])
    /\ pipes' = [pipes EXCEPT ![ThePipe] = cap_length(@, n)]
    /\ UNCHANGED <<pin_pipe, tsize, samplevars, pushed, popped, callervars, GraphIdle>>

PipeCapWeight(n) ==
    /\ pre' = pipes[ThePipe]
    /\ call' = <<"cap_weight", n>>
    /\ ret' = max_weight(pipes[ThePipe])
    /\ pipes' = [pipes EXCEPT ![ThePipe] = cap_weight(@, n)]
    /\ UNCHANGED <<pin_pipe, tsize, samplevars, pushed, popped, callervars, GraphIdle>>

NextPipe ==
    \/ \E pkt \in Packets : PipePush(pkt)
    \/ PipePop
    \/ PipeFlush
    \/ \E n \in 0..MaxCapLength : PipeCapLength(n)
    \/ \E n \in WeightCaps : PipeCapWeight(n)

SpecPipe == InitPipe /\ [][NextPipe]_vars


\* C2: after any sequence of push, pop, flush, cap_length and cap_weight,
\* length() is the number of queued packets and weight() is the sum of size()
\* over the queued packets.
C2_LengthAndWeight ==
    /\ length(pipes[ThePipe]) = Len(pipes[ThePipe].d_packets)
    /\ weight(pipes[ThePipe]) = SumSizes(pipes[ThePipe].d_packets)

\* C3: push returns false exactly when max_length > 0 and length + 1 >
\* max_length, or max_weight > 0 and weight + size > max_weight; a push that
\* returns false leaves the pipe as it was.
C3_PushRefusedIffOverCap ==
    call[1] = "push" =>
        /\ (ret = FALSE) <=>
              \/ max_length(pre) > 0 /\ length(pre) + 1 > max_length(pre)
              \/ max_weight(pre) > 0 /\ weight(pre) + size(call[2]) > max_weight(pre)
        /\ (ret = FALSE) => pipes[ThePipe] = pre

\* C14, as stated: in every reachable state of a pipe, max_length > 0
\* implies length <= max_length and max_weight > 0 implies
\* weight <= max_weight.
C14_WithinCaps ==
    /\ max_length(pipes[ThePipe]) > 0 =>
          length(pipes[ThePipe]) <= max_length(pipes[ThePipe])
    /\ max_weight(pipes[ThePipe]) > 0 =>
          weight(pipes[ThePipe]) <= max_weight(pipes[ThePipe])

\* C14, amended: a pipe is constructed within its caps; push, pop and flush
\* keep a pipe that is within a cap within it; cap_length and cap_weight set
\* the cap alone and leave the queue and the weight as they are, also when
\* the new cap is below them.
C14_CallsKeepWithinCaps ==
    /\ call[1] = "pipe" => C14_WithinCaps
    /\ call[1] \in {"push", "pop", "flush"} =>
          /\ (max_length(pre) > 0 /\ length(pre) <= max_length(pre)) =>
                length(pipes[ThePipe]) <= max_length(pipes[ThePipe])
          /\ (max_weight(pre) > 0 /\ weight(pre) <= max_weight(pre)) =>
                weight(pipes[ThePipe]) <= max_weight(pipes[ThePipe])
    /\ call[1] \in {"cap_length", "cap_weight"} =>
          /\ pipes[ThePipe].d_packets = pre.d_packets
          /\ weight(pipes[ThePipe]) = weight(pre)

\* a push was accepted that filled the pipe to both of its caps
C14_Witness ==
    /\ call[1] = "push"
    /\ ret = TRUE
    /\ max_length(pipes[ThePipe]) = 2
    /\ length(pipes[ThePipe]) = 2
    /\ max_weight(pipes[ThePipe]) = 2 * SizeofInt + 1
    /\ weight(pipes[ThePipe]) = 2 * SizeofInt

-----------------------------------------------------------------------------
(* SpecFifo: the outpin of p and the inpin of c, joined by a new pipe of   *)
(* any caps; one thread calls outpin::push, another calls inpin::pop.      *)

FifoOut == output("p", 0)

FifoIn == input("c", 0)

EmptyHeap == [pipes |-> <<>>, pin_pipe |-> [x \in Pins |-> NoPipe]]

InitFifo ==
    /\ tsize \in {SizeofChar, SizeofInt}
    /\ NoSamples
    /\ \E ml \in 0..MaxCapLength, mw \in WeightCaps :
         \E out \in outpin_connect(EmptyHeap, FifoOut, FifoIn, ml, mw) :
            /\ pipes = out.pipes
            /\ pin_pipe = out.pin_pipe
    /\ call = <<"connect">>
    /\ ret = "returned"
    /\ pre = EmptyHeap
    /\ pushed = <<>>
    /\ popped = <<>>
    /\ status = "running"
    /\ nconnect = 1
    /\ NoGraph

\* the producing thread: outpin::push(packet_p)
FifoPush(pkt) ==
    /\ Len(pushed) < MaxPushes
    /\ pre' = pre
    /\ call' = <<"push", FifoOut, pkt>>
    /\ ret' = outpin_push_result(Heap, FifoOut, pkt)
    /\ pipes' = outpin_push(Heap, FifoOut, pkt).pipes
    /\ pushed' = IF pipes' # pipes THEN Append(pushed, pkt) ELSE pushed
    /\ UNCHANGED <<pin_pipe, tsize, samplevars, popped, callervars, GraphIdle>>

\* the consuming thread: inpin::pop()
FifoPop ==
    /\ pre' = pre
    /\ call' = <<"pop", FifoIn>>
    /\ ret' = inpin_pop_result(Heap, FifoIn)
    /\ pipes' = inpin_pop(Heap, FifoIn).pipes
    /\ popped' = IF ret' # NoPacket THEN Append(popped, ret') ELSE popped
    /\ UNCHANGED <<pin_pipe, tsize, samplevars, pushed, callervars, GraphIdle>>

NextFifo ==
    \/ \E pkt \in Packets : FifoPush(pkt)
    \/ FifoPop

SpecFifo == InitFifo /\ [][NextFifo]_vars

\* C1: the sequence of packets pop returned is a prefix of the sequence of
\* packets that were pushed successfully.
C1_PoppedIsPrefixOfPushed ==
    /\ Len(popped) <= Len(pushed)
    /\ popped = SubSeq(pushed, 1, Len(popped))

\* two different packets were popped while a third one is still queued
C1_Witness ==
    /\ Len(popped) >= 2
    /\ popped[1] # popped[2]
    /\ Len(pushed) > Len(popped)

-----------------------------------------------------------------------------
(* SpecPins: one thread connects, disconnects, pushes to and pops from the *)
(* pins of the producers p and q and of the consumers c and d.  A call     *)
(* that ends in undefined behaviour ends the thread.                       *)

PinsOut == {output("p", 0), output("q", 0)}

PinsIn == {input("c", 0), input("d", 0)}

\* the caps given to connect: none, or a length cap of one packet
PinCaps == {<<0, 0>>, <<1, 0>>}

InitPins ==
    /\ tsize = SizeofChar
    /\ NoSamples
    /\ pipes = <<>>
    /\ pin_pipe = [x \in Pins |-> NoPipe]
    /\ call = <<"none">>
    /\ ret = "none"
    /\ pre = EmptyHeap
    /\ pushed = <<>>
    /\ popped = <<>>
    /\ status = "running"
    /\ nconnect = 0
    /\ NoGraph

\* the calling thread goes on after a call that returned
After(out) == IF out.status = "returned" THEN "running" ELSE out.status

\* producer<T>::connect -> outpin<T>::connect
PinConnect(o, i, ml, mw) ==
    /\ status = "running"
    /\ nconnect < MaxConnects
    /\ \E out \in outpin_connect(Heap, o, i, ml, mw) :
         /\ pipes' = out.pipes
         /\ pin_pipe' = out.pin_pipe
         /\ status' = After(out)
         /\ ret' = out.status
    /\ nconnect' = nconnect + 1
    /\ call' = <<"connect", o, i>>
    /\ pre' = pre
    /\ UNCHANGED <<tsize, samplevars, pushed, popped, GraphIdle>>

\* producer<T>::disconnect(pin) -> outpin<T>::disconnect
PinDisconnectOut(o) ==
    /\ status = "running"
    /\ LET out == outpin_disconnect(Heap, o) IN
         /\ pipes' = out.pipes
         /\ pin_pipe' = out.pin_pipe
         /\ status' = After(out)
         /\ ret' = out.status
    /\ call' = <<"disconnect", o>>
    /\ pre' = pre
    /\ UNCHANGED <<tsize, samplevars, pushed, popped, nconnect, GraphIdle>>

\* consumer<T>::disconnect(pin) -> inpin<T>::disconnect
PinDisconnectIn(i) ==
    /\ status = "running"
    /\ LET out == inpin_disconnect(Heap, i) IN
         /\ pipes' = out.pipes
         /\ pin_pipe' = out.pin_pipe
         /\ status' = After(out)
         /\ ret' = out.status
    /\ call' = <<"disconnect", i>>
    /\ pre' = pre
    /\ UNCHANGED <<tsize, samplevars, pushed, popped, nconnect, GraphIdle>>

\* outpin<T>::push
PinPush(o, pkt) ==
    /\ status = "running"
    /\ pin_pipe[o] # NoPipe => length(pipes[pin_pipe[o]]) < MaxPinQueue
    /\ pipes' = outpin_push(Heap, o, pkt).pipes
    /\ ret' = outpin_push_result(Heap, o, pkt)
    /\ call' = <<"push", o>>
    /\ pre' = pre
    /\ UNCHANGED <<pin_pipe, tsize, samplevars, pushed, popped, callervars, GraphIdle>>

\* inpin<T>::pop
PinPop(i) ==
    /\ status = "running"
    /\ pipes' = inpin_pop(Heap, i).pipes
    /\ ret' = inpin_pop_result(Heap, i)
    /\ call' = <<"pop", i>>
    /\ pre' = pre
    /\ UNCHANGED <<pin_pipe, tsize, samplevars, pushed, popped, callervars, GraphIdle>>

NextPins ==
    \/ \E o \in PinsOut, i \in PinsIn, caps \in PinCaps :
          PinConnect(o, i, caps[1], caps[2])
    \/ \E o \in PinsOut : PinDisconnectOut(o)
    \/ \E i \in PinsIn : PinDisconnectIn(i)
    \/ \E o \in PinsOut, pkt \in Packets : PinPush(o, pkt)
    \/ \E i \in PinsIn : PinPop(i)

SpecPins == InitPins /\ [][NextPins]_vars


RECURSIVE PopsOf(_, _, _)
\* what k calls of inpin::pop on i return, in order, from the heap h on
PopsOf(h, i, k) ==
    IF k = 0 THEN <<>>
    ELSE <<inpin_pop_result(h, i)>> \o PopsOf(inpin_pop(h, i), i, k - 1)

\* the heap after the step
HeapAfter == [pipes |-> pipes', pin_pipe |-> pin_pipe']

\* C4: outpin.push returns true if and only if the packet was appended to
\* the pipe attached to the outpin.
C4_PushTrueIffAppended ==
    [][\A o \in PinsOut :
        call' = <<"push", o>> =>
            ((ret' = TRUE) <=>
                /\ pin_pipe[o] # NoPipe
                /\ length(pipes'[pin_pipe[o]]) = length(pipes[pin_pipe[o]]) + 1)]_vars

\* C9: a connect to an inpin whose pipe holds k packets keeps them: after it
\* returns, the next k pops on the inpin return those packets in their order.
C9_ConnectKeepsQueuedPackets ==
    [][\A o \in PinsOut, i \in PinsIn :
        (call' = <<"connect", o, i>> /\ ret' = "returned" /\ pin_pipe[i] # NoPipe) =>
            PopsOf(HeapAfter, i, length(pipes[pin_pipe[i]]))
                = pipes[pin_pipe[i]].d_packets]_vars

\* a connect has returned and the inpin holds two different packets, which
\* only a pipe that was there before the connect can hold
C9_Witness ==
    /\ call[1] = "connect"
    /\ ret = "returned"
    /\ pin_pipe[call[3]] # NoPipe
    /\ length(pipes[pin_pipe[call[3]]]) = 2
    /\ pipes[pin_pipe[call[3]]].d_packets[1] # pipes[pin_pipe[call[3]]].d_packets[2]

\* C10: after outpin.connect(inpin) returns, the outpin and the inpin share
\* one pipe, so that a packet pushed on the outpin is popped on the inpin.
C10_ConnectSharesOnePipe ==
    (call[1] = "connect" /\ ret = "returned") =>
        /\ pin_pipe[call[2]] # NoPipe
        /\ pin_pipe[call[2]] = pin_pipe[call[3]]
        /\ \A pkt \in Packets :
              (length(pipes[pin_pipe[call[2]]]) = 0
                 /\ ~pipe_push_refused(pipes[pin_pipe[call[2]]], pkt))
              => inpin_pop_result(outpin_push(Heap, call[2], pkt), call[3]) = pkt

\* the pins other than x that hold the pipe x holds
Peers(x) == {y \in Pins \ {x} : pin_pipe[y] = pin_pipe[x]}

\* C11: a disconnect of one of the two pins that share a pipe releases that
\* pin's reference only: the peer keeps the pipe with the queued packets, no
\* other pipe changes, and the pipe is renamed '<upstream>_to_nothing' when
\* the inpin left and 'nothing_to_<downstream>' when the outpin left.
C11_DisconnectKeepsPeer ==
    [][\A x \in PinsOut \cup PinsIn :
        (call' = <<"disconnect", x>> /\ ret' = "returned"
            /\ pin_pipe[x] # NoPipe /\ Peers(x) # {}) =>
            LET id == pin_pipe[x] IN
            /\ pin_pipe' = [pin_pipe EXCEPT ![x] = NoPipe]
            /\ DOMAIN pipes' = DOMAIN pipes
            /\ \A k \in DOMAIN pipes \ {id} : pipes'[k] = pipes[k]
            /\ pipes'[id].d_packets = pipes[id].d_packets
            /\ \A y \in Peers(x) :
                  pipes'[id].name = IF x.dir = "in"
                                    THEN pin_name(y) \o "_to_nothing"
                                    ELSE "nothing_to_" \o pin_name(y)]_vars

\* the inpin of c was disconnected from a pipe that held two different
\* packets, and the outpin of p still holds that pipe and the packets
C11_Witness ==
    /\ call = <<"disconnect", input("c", 0)>>
    /\ ret = "returned"
    /\ pin_pipe[input("c", 0)] = NoPipe
    /\ pin_pipe[output("p", 0)] # NoPipe
    /\ pipes[pin_pipe[output("p", 0)]].name = "p_out0_to_nothing"
    /\ length(pipes[pin_pipe[output("p", 0)]]) = 2
    /\ pipes[pin_pipe[output("p", 0)]].d_packets[1]
          # pipes[pin_pipe[output("p", 0)]].d_packets[2]

\* the outpins, and the inpins, that hold the pipe id
OutpinsOf(id) == {o \in Outpins : pin_pipe[o] = id}

InpinsOf(id) == {i \in Inpins : pin_pipe[i] = id}

\* C17: after any sequence of connects and disconnects, every pipe is held
\* by at most one outpin and by at most one inpin.
C17_OneOutpinOneInpin ==
    \A id \in DOMAIN pipes :
        /\ Cardinality(OutpinsOf(id)) <= 1
        /\ Cardinality(InpinsOf(id)) <= 1

\* a connect on an inpin that had a pipe has returned, and there are two
\* pipes, one of them held by an inpin alone
C17_Witness ==
    /\ call[1] = "connect"
    /\ ret = "returned"
    /\ pin_pipe[call[2]] = NoPipe
    /\ Cardinality(DOMAIN pipes) = 2
    /\ \A id \in DOMAIN pipes : OutpinsOf(id) = {} /\ Cardinality(InpinsOf(id)) = 1

\* C18: after any sequence of connects and disconnects that returned, the
\* name of every pipe is U_to_D, U the name of the outpin that holds the pipe
\* and D the name of the inpin that holds it, 'nothing' where no pin does.
C18_PipeNames ==
    status = "running" =>
        \A id \in DOMAIN pipes :
            \E u \in IF OutpinsOf(id) = {} THEN {"nothing"}
                      ELSE {pin_name(o) : o \in OutpinsOf(id)},
               d \in IF InpinsOf(id) = {} THEN {"nothing"}
                      ELSE {pin_name(i) : i \in InpinsOf(id)} :
                pipes[id].name = u \o "_to_" \o d

\* C22: pop on an inpin without a pipe, or whose pipe is empty, is never
\* held up: it returns the empty sentinel and changes neither the pipes nor
\* the pins; peek is true exactly when the inpin has a pipe and that pipe
\* holds at least one packet.
C22_PopNeverWaits ==
    /\ [](\A i \in PinsIn :
            /\ inpin_peek(Heap, i) <=>
                  (pin_pipe[i] # NoPipe /\ pipes[pin_pipe[i]].d_packets # <<>>)
            /\ status = "running" => ENABLED PinPop(i))
    /\ [][\A i \in PinsIn :
            (call'[1] = "pop" /\ PinPop(i) /\ ~inpin_peek(Heap, i)) =>
                /\ ret' = NoPacket
                /\ pipes' = pipes
                /\ pin_pipe' = pin_pipe]_vars

\* pop has returned the empty sentinel from an inpin whose pipe is empty,
\* while the other inpin has no pipe
C22_Witness ==
    /\ call[1] = "pop"
    /\ ret = NoPacket
    /\ pin_pipe[call[2]] # NoPipe
    /\ ~inpin_peek(Heap, call[2])
    /\ \E i \in PinsIn : pin_pipe[i] = NoPipe

-----------------------------------------------------------------------------
(* SpecGraph: one thread builds a graph of the nodes p (a produce_n, or a  *)
(* dummy_producer), t (a transformation_counter, or a dummy_transformer)   *)
(* and c (a consumption_counter, or a dummy_consumer), takes it through    *)
(* start, pause and stop, and destroys it.  Every node that was started    *)
(* has a thread of its own in node::operator()().                          *)

GraphNodes == {"p", "t", "c"}

\* the class of a node, as the casts of graph::add see it
IsTransformer(n) == n \in {"t", "tee", "adder", "delay"}

IsProducer(n) == n \in {"p", "q", "t", "tee", "adder", "delay"}

IsConsumer(n) == n \in {"c", "d", "t", "tee", "adder", "delay"}

\* the nodes the graph holds
Added == d_producers \cup d_transformers \cup d_consumers

\* graph::find: the node is in one of the three maps
find(n) == n \in Added

\* the names in the order std::map iterates over them
NameOrder == <<"adder", "c", "d", "delay", "p", "q", "t", "tee">>

InOrder(S) == SelectSeq(NameOrder, LAMBDA n : n \in S)

\* the order of a start() that would begin with the producers
start_order_producers_first ==
    InOrder(d_producers) \o InOrder(d_transformers) \o InOrder(d_consumers)

\* the order of a stop() that would begin with the consumers
stop_order_consumers_first ==
    InOrder(d_consumers) \o InOrder(d_transformers) \o InOrder(d_producers)

\* the three loops of graph::start
start_order ==
    InOrder(d_consumers) \o InOrder(d_transformers) \o InOrder(d_producers)

\* the three loops of graph::pause
pause_order ==
    InOrder(d_producers) \o InOrder(d_transformers) \o InOrder(d_consumers)

\* the three loops of graph::stop
stop_order ==
    InOrder(d_producers) \o InOrder(d_transformers) \o InOrder(d_consumers)

\* the worker of the node is blocked in d_transition_cv.wait
Waiting(n) == wpc[n] \in {"pwait", "swait"}

\* consumer<T>::incoming: a packet waits at one of the inpins
incoming(n) == \E k \in 0..(ins(n) - 1) : inpin_peek(Heap, input(n, k))

InitGraph ==
    /\ tsize = SizeofInt
    /\ NoSamples
    /\ pipes = <<>>
    /\ pin_pipe = [x \in Pins |-> NoPipe]
    /\ call = <<"graph">>
    /\ ret = "none"
    /\ pre = EmptyHeap
    /\ pushed = <<>>
    /\ popped = <<>>
    /\ status = "running"
    /\ nconnect = 0
    /\ EmptyGraph
    /\ dummy \in BOOLEAN
    /\ r \in 0..MaxN
    /\ dummy <=> r = 0
    /\ n_left = [n \in Nodes |-> r]

\* the graph is built before the first call of start, pause or stop
Building == phase = "build" /\ op = "idle" /\ last = "none"

\* graph::add
GraphAdd(n) ==
    /\ status = "running"
    /\ Building
    /\ ~find(n)
    /\ d_transformers' = IF IsTransformer(n) THEN d_transformers \cup {n}
                         ELSE d_transformers
    /\ d_producers' = IF ~IsTransformer(n) /\ IsProducer(n)
                      THEN d_producers \cup {n} ELSE d_producers
    /\ d_consumers' = IF ~IsTransformer(n) /\ ~IsProducer(n) /\ IsConsumer(n)
                      THEN d_consumers \cup {n} ELSE d_consumers
    /\ connections' = [m \in DOMAIN connections \cup {n} |->
                         IF m \in DOMAIN connections THEN connections[m]
                         ELSE [k \in {} |-> 0]]
    /\ UNCHANGED <<pipevars, samplevars, obsvars, callervars, d_threads, nodevars,
                   workervars, mainvars>>

\* graph::connect, with the caps it is called without
GraphConnect(pn, cn) ==
    /\ pn # cn
    /\ status = "running"
    /\ Building
    /\ nconnect < MaxGraphConnects
    /\ nconnect' = nconnect + 1
    /\ IF ~find(pn) \/ ~find(cn)
       THEN UNCHANGED <<pipes, pin_pipe, status, connections>>
       ELSE \E out \in outpin_connect(Heap, output(pn, 0), input(cn, 0), 0, 0) :
              /\ pipes' = out.pipes
              /\ pin_pipe' = out.pin_pipe
              /\ status' = After(out)
              /\ connections' =
                    IF out.status = "returned"
                    THEN [connections EXCEPT ![pn] = (0 :> <<cn, 0>>)]
                    ELSE connections
    /\ UNCHANGED <<tsize, samplevars, obsvars, d_producers, d_transformers,
                   d_consumers, d_threads, nodevars, workervars, mainvars>>

\* a transition that would write the state and notify nobody
transition_without_notify(n, s) ==
    /\ d_state_a' = [d_state_a EXCEPT ![n] = s]
    /\ woken' = woken

\* node::transition: the state is written and the worker notified, both
\* under d_transition_m; the started(), paused() and stopped() of the nodes
\* here are empty
transition(n, s) ==
    /\ d_state_a' = [d_state_a EXCEPT ![n] = s]
    /\ woken' = [woken EXCEPT ![n] = IF Waiting(n) THEN TRUE ELSE @]

\* a call of start, pause or stop, or the destructor, begins
Begin(name, order) ==
    /\ status = "running"
    /\ phase \in {"build", "run"}
    /\ op = "idle"
    /\ op' = name
    /\ todo' = order
    /\ tlog' = <<>>
    /\ UNCHANGED <<pipevars, samplevars, obsvars, callervars, graphvars, nodevars,
                   workervars, last, joining>>

\* graph::start is called
GraphStart ==
    /\ ncalls < MaxCalls
    /\ Begin("start", start_order)
    /\ phase' = "run"
    /\ ncalls' = ncalls + 1

\* graph::pause is called
GraphPause ==
    /\ ncalls < MaxCalls
    /\ Begin("pause", pause_order)
    /\ ncalls' = ncalls + 1
    /\ UNCHANGED phase

\* graph::stop is called
GraphStop ==
    /\ ncalls < MaxCalls
    /\ Begin("stop", stop_order)
    /\ ncalls' = ncalls + 1
    /\ UNCHANGED phase

\* graph::~graph calls stop()
GraphDestroy ==
    /\ Begin("destroy", stop_order)
    /\ UNCHANGED <<phase, ncalls>>

\* a start_f that would give the node no thread of its own after a stop:
\* the transition alone
StartStepNoThread ==
    /\ op = "start"
    /\ todo # <<>>
    /\ transition(Head(todo), "started")
    /\ tlog' = Append(tlog, Head(todo))
    /\ todo' = Tail(todo)
    /\ UNCHANGED <<pipevars, samplevars, obsvars, callervars, graphvars, n_left, r, dummy,
                   received, wpc, ws, held, op, last, joining, phase, ncalls>>

\* a start_f that would make a thread for the node whether or not
\* d_threads holds one
StartStepAlways ==
    /\ op = "start"
    /\ todo # <<>>
    /\ LET n == Head(todo) IN
         /\ transition(n, "started")
         /\ d_threads' = d_threads \cup {n}
         /\ wpc' = [wpc EXCEPT ![n] = "begin"]
         /\ live' = [live EXCEPT ![n] = @ + 1]
         /\ tlog' = Append(tlog, n)
    /\ todo' = Tail(todo)
    /\ UNCHANGED <<pipevars, now, clockvars, streamvars, lockvars, obsvars, callervars,
                   d_producers, d_transformers,
                   d_consumers, connections, n_left, r, dummy, received,
                   ws, held, op, last, joining, phase, ncalls>>

\* start_f on the next node: transition, and a thread if it has none
StartStep ==
    /\ op = "start"
    /\ todo # <<>>
    /\ LET n == Head(todo) IN
         /\ transition(n, "started")
         /\ d_threads' = d_threads \cup {n}
         /\ wpc' = IF n \in d_threads THEN wpc ELSE [wpc EXCEPT ![n] = "begin"]
         /\ live' = IF n \in d_threads THEN live ELSE [live EXCEPT ![n] = @ + 1]
         /\ tlog' = Append(tlog, n)
    /\ todo' = Tail(todo)
    /\ UNCHANGED <<pipevars, now, clockvars, streamvars, lockvars, obsvars, callervars,
                   d_producers, d_transformers,
                   d_consumers, connections, n_left, r, dummy, received,
                   ws, held, op, last, joining, phase, ncalls>>

\* pause_f on the next node
PauseStep ==
    /\ op = "pause"
    /\ todo # <<>>
    /\ transition(Head(todo), "paused")
    /\ tlog' = Append(tlog, Head(todo))
    /\ todo' = Tail(todo)
    /\ UNCHANGED <<pipevars, samplevars, obsvars, callervars, graphvars, n_left, r, dummy,
                   received, wpc, ws, held, op, last, joining, phase, ncalls>>

\* stop_f on the next node, up to the join
StopStep ==
    /\ op \in {"stop", "destroy"}
    /\ todo # <<>>
    /\ joining = "none"
    /\ transition(Head(todo), "stopped")
    /\ tlog' = Append(tlog, Head(todo))
    /\ joining' = IF Head(todo) \in d_threads THEN Head(todo) ELSE "none"
    /\ todo' = Tail(todo)
    /\ UNCHANGED <<pipevars, samplevars, obsvars, callervars, graphvars, n_left, r, dummy,
                   received, wpc, ws, held, op, last, phase, ncalls>>

\* stop_f: join() returns once the thread has left operator()(), and the
\* thread is erased
StopJoin ==
    /\ joining # "none"
    /\ wpc[joining] = "exited"
    /\ d_threads' = d_threads \ {joining}
    /\ wpc' = [wpc EXCEPT ![joining] = "none"]
    /\ joining' = "none"
    /\ UNCHANGED <<pipevars, samplevars, obsvars, callervars, d_producers, d_transformers,
                   d_consumers, connections, nodevars, ws, held, woken,
                   op, last, todo, tlog, phase, ncalls>>

\* the call returns
Return ==
    /\ op # "idle"
    /\ todo = <<>>
    /\ joining = "none"
    /\ last' = op
    /\ op' = "idle"
    /\ phase' = IF op = "destroy" THEN "done" ELSE phase
    /\ UNCHANGED <<pipevars, samplevars, obsvars, callervars, graphvars, nodevars,
                   workervars, todo, joining, tlog, ncalls>>

\* the counters of the graph
Counters == (d_transformers \cup d_consumers)

\* the test resets the source and the counters after a pause or a stop that
\* left every counter at N
GraphReset ==
    /\ status = "running"
    /\ phase = "run"
    /\ op = "idle"
    /\ last \in {"pause", "stop"}
    /\ ~dummy
    /\ Counters # {}
    /\ \A n \in Counters : received[n] = r
    /\ r # 0
    /\ n_left' = [n \in Nodes |-> r]
    /\ received' = [n \in Nodes |-> 0]
    /\ call' = <<"reset">>
    /\ UNCHANGED <<pipevars, samplevars, ret, pre, pushed, popped, callervars, graphvars,
                   d_state_a, r, dummy, workervars, mainvars>>

\* the threads run as long as the process does
Alive(n) == status = "running" /\ n \in d_threads

\* operator()(): state::type s(state())
WorkerBegin(n) ==
    /\ Alive(n)
    /\ wpc[n] = "begin"
    /\ ws' = [ws EXCEPT ![n] = d_state_a[n]]
    /\ wpc' = [wpc EXCEPT ![n] = "top"]
    /\ UNCHANGED <<pipevars, samplevars, obsvars, callervars, graphvars, nodevars,
                   held, woken, mainvars>>

\* operator()(): while(s != state::stopped) ends the loop
WorkerExit(n) ==
    /\ Alive(n)
    /\ wpc[n] = "top"
    /\ ws[n] = "stopped"
    /\ wpc' = [wpc EXCEPT ![n] = "exited"]
    /\ live' = [live EXCEPT ![n] = @ - 1]
    /\ UNCHANGED <<pipevars, now, clockvars, streamvars, lockvars, obsvars, callervars,
                   graphvars, nodevars,
                   ws, held, woken, mainvars>>

\* a loop that would call produce() whenever the node is not stopped
producer_next_unless_stopped(blocks, cur) ==
    IF blocks THEN "pwait" ELSE IF cur # "stopped" THEN "produce" ELSE "top"

\* where producer<T>::operator()() goes once s was read as cur: into wait()
\* if the predicate is false, into produce() if started, else around the loop
producer_next(blocks, cur) ==
    IF blocks THEN "pwait" ELSE IF cur = "started" THEN "produce" ELSE "top"

\* producer<T>::operator()(): one turn of the loop up to produce(); the
\* predicate of wait() is evaluated under d_transition_m
ProducerLoop(n) ==
    /\ Alive(n)
    /\ ~IsTransformer(n) /\ IsProducer(n)
    /\ wpc[n] = "top"
    /\ ws[n] # "stopped"
    /\ LET cur == d_state_a[n] IN
         /\ ws' = [ws EXCEPT ![n] = cur]
         /\ wpc' = [wpc EXCEPT ![n] =
                      producer_next(ws[n] = "paused" /\ cur = "paused", cur)]
    /\ UNCHANGED <<pipevars, samplevars, obsvars, callervars, graphvars, nodevars,
                   held, woken, mainvars>>

\* a loop that would visit the inpins of a paused node that has packets
consumer_next_while_paused(n, s, cur) ==
    IF s = "paused"
    THEN IF cur # "paused" THEN "top" ELSE IF incoming(n) THEN "visit" ELSE "pwait"
    ELSE IF cur # "started" THEN "top"
         ELSE IF incoming(n) THEN "visit" ELSE "swait"

\* a loop that would look at the inpins before it looks at the state
consumer_next_packets_first(n, s, cur) ==
    IF s = "paused"
    THEN IF cur # "paused" THEN "top" ELSE "pwait"
    ELSE IF incoming(n) THEN "visit"
         ELSE IF cur # "started" THEN "top" ELSE "swait"

\* where consumer<T>::operator()() goes once s was read as cur
consumer_next(n, s, cur) ==
    IF s = "paused"
    THEN IF cur # "paused" THEN "top" ELSE "pwait"
    ELSE IF cur # "started" THEN "top"
         ELSE IF incoming(n) THEN "visit" ELSE "swait"

\* consumer<T>::operator()(): one turn of the loop up to the visit of the
\* inpins; a transformer runs this loop too
ConsumerLoop(n) ==
    /\ Alive(n)
    /\ IsConsumer(n)
    /\ wpc[n] = "top"
    /\ ws[n] # "stopped"
    /\ LET cur == d_state_a[n] IN
         /\ ws' = [ws EXCEPT ![n] = cur]
         /\ wpc' = [wpc EXCEPT ![n] = consumer_next(n, ws[n], cur)]
    /\ UNCHANGED <<pipevars, samplevars, obsvars, callervars, graphvars, nodevars,
                   held, woken, mainvars>>

\* the predicate of the wait() the worker is blocked in
wait_predicate(n) ==
    IF wpc[n] = "pwait" THEN d_state_a[n] # "paused"
    ELSE d_state_a[n] # "started" \/ incoming(n)

\* wait() wakes up and evaluates its predicate under d_transition_m: it
\* returns if the predicate holds and blocks again if not
Reevaluate(n) ==
    /\ Alive(n)
    /\ Waiting(n)
    /\ LET cur == d_state_a[n] IN
         /\ ws' = [ws EXCEPT ![n] = cur]
         /\ wpc' = [wpc EXCEPT ![n] =
                      IF ~wait_predicate(n) THEN @
                      ELSE IF IsConsumer(n)
                           THEN consumer_next(n, IF @ = "pwait" THEN "paused" ELSE "started", cur)
                           ELSE producer_next(FALSE, cur)]
    /\ woken' = [woken EXCEPT ![n] = FALSE]
    /\ UNCHANGED <<pipevars, samplevars, obsvars, callervars, graphvars, nodevars,
                   held, mainvars>>

\* the worker was notified
Wake(n) ==
    /\ woken[n]
    /\ Reevaluate(n)

\* a wake-up that no notify_one caused, at a time the predicate holds
SpuriousWake(n) ==
    /\ ~woken[n]
    /\ Waiting(n)
    /\ wait_predicate(n)
    /\ Reevaluate(n)

\* notify_one on the d_transition_cv of the node that owns the inpin
notified(i) == [woken EXCEPT ![i.node] = IF Waiting(i.node) THEN TRUE ELSE @]

\* the inpin at the end of the pipe of the outpin o, which outpin<T>::push
\* calls incoming() on
far_end(o) == pipes[pin_pipe[o]].d_output_p

\* produce(): produce_n pushes a packet of T() while n lasts, up to the
\* moment outpin<T>::push has left the pipe; dummy_producer does nothing
ProducerProduce(n) ==
    /\ Alive(n)
    /\ wpc[n] = "produce"
    /\ IF dummy \/ n_left[n] = 0
       THEN /\ wpc' = [wpc EXCEPT ![n] = "top"]
            /\ UNCHANGED <<pipes, n_left>>
       ELSE /\ n_left' = [n_left EXCEPT ![n] = @ - 1]
            /\ pipes' = outpin_push(Heap, output(n, 0), packet(0)).pipes
            /\ wpc' = [wpc EXCEPT ![n] =
                         IF outpin_push_inpin_p(Heap, output(n, 0), packet(0)) # NoPin
                         THEN "notify" ELSE "top"]
    /\ UNCHANGED <<pin_pipe, tsize, samplevars, obsvars, callervars, graphvars, d_state_a,
                   r, dummy, received, ws, held, woken, mainvars>>

\* an incoming() that would notify nobody
WorkerNotifyNobody(n) ==
    /\ Alive(n)
    /\ wpc[n] = "notify"
    /\ received' = IF IsTransformer(n) THEN [received EXCEPT ![n] = @ + 1]
                   ELSE received
    /\ wpc' = [wpc EXCEPT ![n] = "top"]
    /\ UNCHANGED <<pipevars, samplevars, obsvars, callervars, graphvars, d_state_a,
                   n_left, r, dummy, ws, held, woken, mainvars>>

\* the end of outpin<T>::push: inpin_p->incoming() notifies the consuming
\* node; a transformation_counter then counts the packet it passed on
WorkerNotify(n) ==
    /\ Alive(n)
    /\ wpc[n] = "notify"
    /\ woken' = notified(far_end(output(n, 0)))
    /\ received' = IF IsTransformer(n) THEN [received EXCEPT ![n] = @ + 1]
                   ELSE received
    /\ wpc' = [wpc EXCEPT ![n] = "top"]
    /\ UNCHANGED <<pipevars, samplevars, obsvars, callervars, graphvars, d_state_a,
                   n_left, r, dummy, ws, held, mainvars>>

\* the for loop of consumer<T>::operator()(): peek, and ready(0) up to the
\* end of its pop(); consumption_counter counts, transformation_counter
\* holds the packet, the dummies leave it
ConsumerVisit(n) ==
    /\ Alive(n)
    /\ wpc[n] = "visit"
    /\ IF ~inpin_peek(Heap, input(n, 0)) \/ dummy
       THEN /\ wpc' = [wpc EXCEPT ![n] = "top"]
            /\ UNCHANGED <<pipes, held, received>>
       ELSE /\ pipes' = inpin_pop(Heap, input(n, 0)).pipes
            /\ IF IsTransformer(n)
               THEN /\ held' = [held EXCEPT ![n] = inpin_pop_result(Heap, input(n, 0))]
                    /\ wpc' = [wpc EXCEPT ![n] = "tpush"]
                    /\ UNCHANGED received
               ELSE /\ received' = [received EXCEPT ![n] = @ + 1]
                    /\ wpc' = [wpc EXCEPT ![n] = "top"]
                    /\ UNCHANGED held
    /\ UNCHANGED <<pin_pipe, tsize, samplevars, obsvars, callervars, graphvars, d_state_a,
                   n_left, r, dummy, ws, woken, mainvars>>

\* transformation_counter::ready: output(0).push(p) up to the moment it
\* has left the pipe; without an inpin to notify the packet is counted here
TransformerPush(n) ==
    /\ Alive(n)
    /\ wpc[n] = "tpush"
    /\ pipes' = outpin_push(Heap, output(n, 0), held[n]).pipes
    /\ held' = [held EXCEPT ![n] = NoPacket]
    /\ IF outpin_push_inpin_p(Heap, output(n, 0), held[n]) # NoPin
       THEN /\ wpc' = [wpc EXCEPT ![n] = "notify"]
            /\ UNCHANGED received
       ELSE /\ wpc' = [wpc EXCEPT ![n] = "top"]
            /\ received' = [received EXCEPT ![n] = @ + 1]
    /\ UNCHANGED <<pin_pipe, tsize, samplevars, obsvars, callervars, graphvars, d_state_a,
                   n_left, r, dummy, ws, woken, mainvars>>

\* the steps of the thread of n
Worker(n) ==
    \/ WorkerBegin(n)
    \/ WorkerExit(n)
    \/ ProducerLoop(n)
    \/ ConsumerLoop(n)
    \/ Wake(n)
    \/ ProducerProduce(n)
    \/ WorkerNotify(n)
    \/ ConsumerVisit(n)
    \/ TransformerPush(n)

\* the steps of the owning thread inside a call
Main ==
    \/ StartStep
    \/ PauseStep
    \/ StopStep
    \/ StopJoin
    \/ Return

NextGraph ==
    \/ \E n \in GraphNodes : GraphAdd(n)
    \/ \E pn \in {"p", "t"}, cn \in {"t", "c"} : GraphConnect(pn, cn)
    \/ GraphStart
    \/ GraphPause
    \/ GraphStop
    \/ GraphDestroy
    \/ GraphReset
    \/ StartStep
    \/ PauseStep
    \/ StopStep
    \/ StopJoin
    \/ Return
    \/ \E n \in GraphNodes : WorkerBegin(n)
    \/ \E n \in GraphNodes : WorkerExit(n)
    \/ \E n \in GraphNodes : ProducerLoop(n)
    \/ \E n \in GraphNodes : ConsumerLoop(n)
    \/ \E n \in GraphNodes : Wake(n)
    \/ \E n \in GraphNodes : SpuriousWake(n)
    \/ \E n \in GraphNodes : ProducerProduce(n)
    \/ \E n \in GraphNodes : WorkerNotify(n)
    \/ \E n \in GraphNodes : ConsumerVisit(n)
    \/ \E n \in GraphNodes : TransformerPush(n)

SpecGraph == InitGraph /\ [][NextGraph]_vars

\* SpecQuiet: the graphs of dummies, in which no step that needs a packet
\* is ever enabled.  The threads are scheduled, and a call that can go on
\* does; a wake-up without a notification is not owed to anyone.
InitQuiet ==
    /\ InitGraph
    /\ dummy

NextQuiet ==
    \/ \E n \in GraphNodes : GraphAdd(n)
    \/ \E pn \in {"p", "t"}, cn \in {"t", "c"} : GraphConnect(pn, cn)
    \/ GraphStart
    \/ GraphPause
    \/ GraphStop
    \/ GraphDestroy
    \/ StartStep
    \/ PauseStep
    \/ StopStep
    \/ StopJoin
    \/ Return
    \/ \E n \in GraphNodes : WorkerBegin(n)
    \/ \E n \in GraphNodes : WorkerExit(n)
    \/ \E n \in GraphNodes : ProducerLoop(n)
    \/ \E n \in GraphNodes : ConsumerLoop(n)
    \/ \E n \in GraphNodes : Wake(n)
    \/ \E n \in GraphNodes : ProducerProduce(n)

SpecQuiet ==
    /\ InitQuiet
    /\ [][NextQuiet]_vars
    /\ WF_vars(Main)
    /\ \A n \in GraphNodes : WF_vars(Worker(n))

-----------------------------------------------------------------------------
(* The claims about graphs.                                                *)

\* the source s feeds the sink k through one pipe
Direct(s, k) ==
    /\ pin_pipe[output(s, 0)] # NoPipe
    /\ pin_pipe[output(s, 0)] = pin_pipe[input(k, 0)]

\* the source s feeds the sink k through the transformer t
Through(s, k) ==
    /\ Direct(s, "t")
    /\ Direct("t", k)

\* the source has pushed all its packets, every pipe is empty and no push
\* and no ready() is in progress
Rested ==
    /\ n_left["p"] = 0
    /\ \A id \in DOMAIN pipes : length(pipes[id]) = 0
    /\ \A n \in GraphNodes : wpc[n] \notin {"tpush", "notify"}

\* C5 as stated: for any N, with a produce_n(N) wired directly or through a
\* transformation_counter to a consumption_counter, every counter has
\* observed exactly N packets after a start followed by a stop or a pause.
C5_ExactlyNAfterHalt ==
    (phase = "run" /\ op = "idle" /\ last \in {"pause", "stop"}) =>
        /\ Direct("p", "c") => received["c"] = r
        /\ Through("p", "c") => received["t"] = r /\ received["c"] = r

\* C5, amended: with the same wiring, no counter ever observes more than N
\* packets, and every counter has observed exactly N once the source has
\* pushed its N packets, the pipes are empty and no callback is in progress;
\* this holds in every cycle, the source and the counters being reset
\* between cycles.  A stop or a pause does not wait for that moment.
C5_ExactlyNAtRest ==
    /\ Direct("p", "c") =>
          /\ received["c"] <= r
          /\ Rested => received["c"] = r
    /\ Through("p", "c") =>
          /\ received["t"] <= r /\ received["c"] <= r
          /\ Rested => (received["t"] = r /\ received["c"] = r)

\* the graph was destroyed at the end of a second cycle, after a reset, and
\* the counters behind the transformer hold N = 2 again
C5_Witness ==
    /\ call = <<"reset">>
    /\ phase = "done"
    /\ Through("p", "c")
    /\ Rested
    /\ r = 2
    /\ received["t"] = 2
    /\ received["c"] = 2

\* the call the transitions of tlog belong to
CallOf == IF op # "idle" THEN op ELSE last

\* the nodes that received their transition before the j-th one
Before(j) == {tlog[i] : i \in 1..(j - 1)}

\* C6: during graph.start(), every pure consumer receives its transition to
\* started before any transformer does, and every transformer before any
\* pure producer does; when start() returns every node has received it.
C6_StartOrder ==
    CallOf = "start" =>
        /\ \A j \in DOMAIN tlog :
              /\ tlog[j] \in d_transformers => d_consumers \subseteq Before(j)
              /\ tlog[j] \in d_producers => d_transformers \subseteq Before(j)
        /\ op = "idle" => {tlog[j] : j \in DOMAIN tlog} = Added

\* start() has returned on a graph with a producer, a transformer and a
\* consumer
C6_Witness ==
    /\ op = "idle"
    /\ last = "start"
    /\ Len(tlog) = 3
    /\ d_producers # {} /\ d_transformers # {} /\ d_consumers # {}

\* C7: during graph.pause() and graph.stop(), every pure producer receives
\* its transition before any transformer does, and every transformer before
\* any pure consumer does; when the call returns every node has received it.
C7_HaltOrder ==
    CallOf \in {"pause", "stop", "destroy"} =>
        /\ \A j \in DOMAIN tlog :
              /\ tlog[j] \in d_transformers => d_producers \subseteq Before(j)
              /\ tlog[j] \in d_consumers => d_transformers \subseteq Before(j)
        /\ op = "idle" => {tlog[j] : j \in DOMAIN tlog} = Added

\* stop() has returned on a started graph with a producer, a transformer
\* and a consumer
C7_Witness ==
    /\ op = "idle"
    /\ last = "stop"
    /\ phase = "run"
    /\ Len(tlog) = 3
    /\ d_producers # {} /\ d_transformers # {} /\ d_consumers # {}

\* no thread is left and none is on record
NoWorker ==
    /\ d_threads = {}
    /\ \A n \in Nodes : wpc[n] = "none"

-----------------------------------------------------------------------------
(* SpecWire: one thread adds the nodes p (a producer), t (a transformer)   *)
(* and c (a consumer) to a graph, removes them, connects and disconnects   *)
(* their pins through the graph and pushes on the outpins.  No node is     *)
(* started.  All nodes carry the same element type; connect<T> is called   *)
(* with that type or with the other one.                                   *)

WireNodes == {"p", "t", "c"}

\* the element type of the nodes: the one whose sizeof is tsize
ElemOf == IF tsize = SizeofChar THEN "char" ELSE "int"

\* the caps given to graph::connect: none, a length cap, a weight cap
WireCaps == {<<0, 0>>, <<1, 0>>, <<0, 2>>}

InitWire ==
    /\ tsize = SizeofChar
    /\ NoSamples
    /\ pipes = <<>>
    /\ pin_pipe = [x \in Pins |-> NoPipe]
    /\ call = <<"graph">>
    /\ ret = "none"
    /\ pre = EmptyHeap
    /\ pushed = <<>>
    /\ popped = <<>>
    /\ status = "running"
    /\ nconnect = 0
    /\ NoGraph

\* producer<T>::connect(p_pin, consumer_p, c_pin, max_length, max_weight), as
\* graph::connect calls it: the outpin's connect with the inpin and the caps
producer_connect(h, pn, cn, max_len, max_wgt) ==
    outpin_connect(h, output(pn, 0), input(cn, 0), max_len, max_wgt)

\* the two dynamic_pointer_casts of graph::connect<T> both give a node
casts(T, pn, cn) == IsProducer(pn) /\ IsConsumer(cn) /\ T = ElemOf

\* graph::connect<T>(p_name_r, 0, c_name_r, 0, max_length, max_weight)
WireConnect(T, pn, cn, ml, mw) ==
    /\ status = "running"
    /\ nconnect < MaxConnects
    /\ nconnect' = nconnect + 1
    /\ call' = <<"connect", pn, cn>>
    /\ IF ~find(pn) \/ ~find(cn)
       THEN /\ ret' = "false"
            /\ UNCHANGED <<pipes, pin_pipe, status, connections>>
       ELSE IF ~casts(T, pn, cn)
       THEN /\ ret' = "crashed"
            /\ status' = "crashed"
            /\ UNCHANGED <<pipes, pin_pipe, connections>>
       ELSE \E out \in producer_connect(Heap, pn, cn, ml, mw) :
              /\ pipes' = out.pipes
              /\ pin_pipe' = out.pin_pipe
              /\ status' = After(out)
              /\ ret' = IF out.status = "returned" THEN "true" ELSE out.status
              /\ connections' =
                    IF out.status = "returned"
                    THEN [m \in DOMAIN connections \cup {pn} |->
                            IF m = pn THEN (0 :> <<cn, 0>>) ELSE connections[m]]
                    ELSE connections
    /\ UNCHANGED <<tsize, samplevars, pre, pushed, popped, d_producers, d_transformers,
                   d_consumers, d_threads, nodevars, workervars, mainvars>>

\* sever(): consumer<T>::sever, producer<T>::sever, and transformer's, which
\* calls the consumer's then the producer's
sever(h, n) ==
    LET h1 == IF ins(n) > 0 THEN inpin_disconnect(h, input(n, 0)) ELSE Returned(h)
    IN  IF h1.status # "returned" THEN h1
        ELSE IF outs(n) > 0 THEN outpin_disconnect(h1, output(n, 0)) ELSE h1

\* graph::remove(name_r)
WireRemove(n) ==
    /\ status = "running"
    /\ call' = <<"remove", n>>
    /\ LET out == IF find(n) THEN sever(Heap, n) ELSE Returned(Heap) IN
         /\ pipes' = out.pipes
         /\ pin_pipe' = out.pin_pipe
         /\ status' = After(out)
         /\ ret' = out.status
         /\ IF out.status = "returned"
            THEN /\ d_producers' = d_producers \ {n}
                 /\ d_transformers' = d_transformers \ {n}
                 /\ d_consumers' = d_consumers \ {n}
                 /\ connections' = [m \in DOMAIN connections \ {n} |-> connections[m]]
            ELSE UNCHANGED <<d_producers, d_transformers, d_consumers, connections>>
    /\ UNCHANGED <<tsize, samplevars, pre, pushed, popped, nconnect, d_threads, nodevars,
                   workervars, mainvars>>

\* graph::disconnect<T>(sp, pin), on a producer (dir "out") or a consumer
\* (dir "in"): the pin's disconnect, then connections[name][pin] is emptied
WireDisconnect(x) ==
    /\ status = "running"
    /\ call' = <<"disconnect", x>>
    /\ LET out == IF x.dir = "out" THEN outpin_disconnect(Heap, x)
                  ELSE inpin_disconnect(Heap, x) IN
         /\ pipes' = out.pipes
         /\ pin_pipe' = out.pin_pipe
         /\ status' = After(out)
         /\ ret' = out.status
         /\ connections' =
               IF out.status = "returned"
               THEN [m \in DOMAIN connections \cup {x.node} |->
                       IF m = x.node THEN (x.idx :> <<"", 0>>) ELSE connections[m]]
               ELSE connections
    /\ UNCHANGED <<tsize, samplevars, pre, pushed, popped, nconnect, d_producers,
                   d_transformers, d_consumers, d_threads, nodevars,
                   workervars, mainvars>>

\* outpin<T>::push on an outpin of the nodes
WirePush(o) ==
    /\ o.dir = "out"
    /\ pin_pipe[o] # NoPipe => length(pipes[pin_pipe[o]]) < MaxWireQueue
    /\ PinPush(o, packet(1))

WirePins == {x \in Pins : x.node \in WireNodes}

NextWire ==
    \/ \E n \in WireNodes : GraphAdd(n)
    \/ \E n \in WireNodes : WireRemove(n)
    \/ \E T \in {"char", "int"}, pn \in WireNodes, cn \in WireNodes, caps \in WireCaps :
          WireConnect(T, pn, cn, caps[1], caps[2])
    \/ \E x \in WirePins : WireDisconnect(x)
    \/ \E o \in WirePins : WirePush(o)

SpecWire == InitWire /\ [][NextWire]_vars


RECURSIVE PushesOf(_, _, _)
\* the heap after k calls of outpin::push on o, from the heap h on
PushesOf(h, o, k) ==
    IF k = 0 THEN h ELSE PushesOf(outpin_push(h, o, packet(1)), o, k - 1)

\* C12: graph.connect<T> returns false when one of the named nodes is not in
\* the graph or is not a producer<T> / consumer<T>; when it returns false, no
\* pipe was created, changed or released and the registry is as it was.
C12_ConnectFalseLeavesGraph ==
    [][\A T \in {"char", "int"}, pn \in WireNodes, cn \in WireNodes, caps \in WireCaps :
        WireConnect(T, pn, cn, caps[1], caps[2]) =>
            /\ (~find(pn) \/ ~find(cn) \/ ~casts(T, pn, cn)) => ret' = "false"
            /\ ret' = "false" => UNCHANGED <<pipes, pin_pipe, connections>>]_vars

\* C13: a graph.connect of an outpin and an inpin that are connected to each
\* other returns, leaves the registry as it was and leaves the two pins
\* connected to each other.
C13_ConnectTwiceIsNoOp ==
    [][\A T \in {"char", "int"}, pn \in WireNodes, cn \in WireNodes, caps \in WireCaps :
        (/\ WireConnect(T, pn, cn, caps[1], caps[2])
         /\ find(pn) /\ find(cn) /\ casts(T, pn, cn)
         /\ pin_pipe[output(pn, 0)] # NoPipe
         /\ pin_pipe[output(pn, 0)] = pin_pipe[input(cn, 0)]) =>
            /\ ret' = "true"
            /\ connections' = connections
            /\ pin_pipe'[output(pn, 0)] # NoPipe
            /\ pin_pipe'[output(pn, 0)] = pin_pipe'[input(cn, 0)]]_vars

\* C15: after graph.connect<T>(p, 0, c, 0, max_length, max_weight) returned
\* true, the pipe of the inpin has max_length() = max_length and
\* max_weight() = max_weight, whether the pipe is new or adopted; if it is
\* empty, max_length = 0 and max_weight = W > 0, then W + 1 pushes of packets
\* of size 1 on the outpin queue W packets in it.
C15_ConnectSetsCaps ==
    [][\A T \in {"char", "int"}, pn \in WireNodes, cn \in WireNodes, caps \in WireCaps :
        (WireConnect(T, pn, cn, caps[1], caps[2]) /\ ret' = "true") =>
            LET id == pin_pipe'[input(cn, 0)] IN
            /\ id # NoPipe
            /\ max_length(pipes'[id]) = caps[1]
            /\ max_weight(pipes'[id]) = caps[2]
            /\ (caps[1] = 0 /\ caps[2] > 0 /\ length(pipes'[id]) = 0
                  /\ weight(pipes'[id]) = 0) =>
                  length(PushesOf(HeapAfter, output(pn, 0), caps[2] + 1).pipes[id])
                      = caps[2]]_vars

\* graph::to_dot: the edge lines, one for every row of the registry, as
\* <<producer, taillabel, consumer, headlabel>>
to_dot ==
    UNION {{<<pn, k, connections[pn][k][1], connections[pn][k][2]>> :
               k \in DOMAIN connections[pn]} : pn \in DOMAIN connections}

\* C19: every edge of the connections registry has its producer node and its
\* consumer node in the graph (a row emptied by graph::disconnect is no edge).
C19_EdgesBetweenAddedNodes ==
    status = "running" =>
        \A pn \in DOMAIN connections : \A k \in DOMAIN connections[pn] :
            connections[pn][k][1] # "" =>
                find(pn) /\ find(connections[pn][k][1])

\* C20: graph.remove(name) of a node of the graph returns whether the pins
\* of the node hold a pipe or not; then no pin of the node holds a pipe, the
\* node is in none of the three maps and has no row in the registry, and
\* every pipe it shared is still held by the peer's pin with its packets.
C20_RemoveSeversAndEvicts ==
    [][\A n \in WireNodes :
        (WireRemove(n) /\ find(n)) =>
            /\ ret' = "returned"
            /\ \A x \in WirePins : x.node = n => pin_pipe'[x] = NoPipe
            /\ n \notin d_producers' \cup d_transformers' \cup d_consumers'
            /\ n \notin DOMAIN connections'
            /\ \A x \in WirePins : \A y \in Peers(x) :
                  (x.node = n /\ pin_pipe[x] # NoPipe /\ y.node # n) =>
                      /\ pin_pipe'[y] = pin_pipe[y]
                      /\ pin_pipe[y] \in DOMAIN pipes'
                      /\ pipes'[pin_pipe[y]].d_packets = pipes[pin_pipe[y]].d_packets]_vars

\* C21: after graph.disconnect on an outpin or an inpin of a graph whose
\* registry held one edge per active connection, the registry holds no edge
\* for the connection the pin took part in, and to_dot emits exactly one
\* edge line per connection that is still active and none for the
\* disconnected pin.
C21_DisconnectClearsEdge ==
    [][\A x \in WirePins :
        LET Active(pp) == {<<o.node, o.idx, i.node, i.idx>> :
                             o \in {y \in WirePins : y.dir = "out"},
                             i \in {y \in WirePins : y.dir = "in"}} \cap
                          {e \in WireNodes \X {0} \X WireNodes \X {0} :
                             /\ pp[output(e[1], e[2])] # NoPipe
                             /\ pp[output(e[1], e[2])] = pp[input(e[3], e[4])]}
        IN  (/\ call' = <<"disconnect", x>>
             /\ ret' = "returned"
             /\ WireDisconnect(x)
             /\ to_dot = Active(pin_pipe)) =>
                /\ to_dot' = Active(pin_pipe')
                /\ \A e \in to_dot' : x \notin {output(e[1], e[2]), input(e[3], e[4])}]_vars

-----------------------------------------------------------------------------
(* SpecTee: the graph of the reconnect test.  A produce_n(N) feeds a tee   *)
(* whose output 0 feeds the consumption_counter c and whose output 1 feeds *)
(* the consumption_counter d.  The owning thread runs the graph three      *)
(* times: as built, with the inpin of c disconnected, and with the inpin   *)
(* of d disconnected and output 0 of the tee connected to c again.         *)
(* Between the runs it pauses the graph, stops it, or leaves it running;   *)
(* call is <<halt, run, the next statement of the test>>.                  *)

TeeNodes == {"p", "tee", "c", "d"}

\* the graph after the four calls of add and the three calls of connect
InitTee ==
    /\ tsize = SizeofInt
    /\ NoSamples
    /\ LET h == connect_new(
                  connect_new(
                    connect_new(EmptyHeap, output("p", 0), input("tee", 0), 0, 0),
                    output("tee", 0), input("c", 0), 0, 0),
                  output("tee", 1), input("d", 0), 0, 0)
       IN  pipes = h.pipes /\ pin_pipe = h.pin_pipe
    /\ call \in {<<m, 1, "start">> : m \in {"pause", "stop", "nohalt"}}
    /\ ret = "none"
    /\ pre = EmptyHeap
    /\ pushed = <<>>
    /\ popped = <<>>
    /\ status = "running"
    /\ nconnect = 3
    /\ d_producers = {"p"}
    /\ d_transformers = {"tee"}
    /\ d_consumers = {"c", "d"}
    /\ d_threads = {}
    /\ connections = [n \in TeeNodes |->
                        CASE n = "p" -> (0 :> <<"tee", 0>>)
                          [] n = "tee" -> (0 :> <<"c", 0>>) @@ (1 :> <<"d", 0>>)
                          [] OTHER -> [k \in {} |-> 0]]
    /\ d_state_a = [n \in Nodes |-> "paused"]
    /\ wpc = [n \in Nodes |-> "none"]
    /\ live = [n \in Nodes |-> 0]
    /\ ws = [n \in Nodes |-> "paused"]
    /\ held = [n \in Nodes |-> NoPacket]
    /\ woken = [n \in Nodes |-> FALSE]
    /\ received = [n \in Nodes |-> 0]
    /\ op = "idle"
    /\ last = "none"
    /\ todo = <<>>
    /\ joining = "none"
    /\ tlog = <<>>
    /\ phase = "build"
    /\ ncalls = 0
    /\ dummy = FALSE
    /\ r \in 1..MaxN
    /\ n_left = [n \in Nodes |-> r]

\* what sleep_for(100 ms) waits for: the source has pushed its packets, no
\* packet waits at an inpin and no push and no ready() is in progress
TeeRested ==
    /\ n_left["p"] = 0
    /\ \A i \in Inpins : pin_pipe[i] # NoPipe => length(pipes[pin_pipe[i]]) = 0
    /\ wpc["p"] \notin {"produce", "notify"}
    /\ wpc["tee"] \notin {"ready", "got", "move", "notify1", "notify0"}

\* the thread of n is in the loop of consumer<T>::operator()() with the node
\* started: each turn of the loop and each wake-up of its wait() calls
\* peek() on the inpins, which reads d_pipe_sp under no lock that a
\* connect or a disconnect takes
peeking(n) == n \in d_threads /\ d_state_a[n] = "started" /\ wpc[n] \in {"top", "swait"}

\* g.start(), which the test leaves out before the second and the third run
\* if the graph was left running
TeeStart ==
    /\ status = "running"
    /\ op = "idle"
    /\ call[3] = "start"
    /\ call' = <<call[1], call[2], "sleep">>
    /\ IF call[1] = "nohalt" /\ call[2] > 1
       THEN UNCHANGED <<op, todo, tlog, phase, ncalls>>
       ELSE /\ op' = "start"
            /\ todo' = start_order
            /\ tlog' = <<>>
            /\ phase' = "run"
            /\ ncalls' = ncalls + 1
    /\ UNCHANGED <<pipevars, samplevars, ret, pre, pushed, popped, callervars, graphvars,
                   nodevars, workervars, last, joining>>

\* the sleep is over; g.pause() or g.stop() if the test was asked to halt
TeeHalt ==
    /\ status = "running"
    /\ op = "idle"
    /\ call[3] = "sleep"
    /\ TeeRested
    /\ call' = <<call[1], call[2], "check">>
    /\ IF call[1] = "nohalt"
       THEN UNCHANGED <<op, todo, tlog, ncalls>>
       ELSE /\ op' = call[1]
            /\ todo' = IF call[1] = "pause" THEN pause_order ELSE stop_order
            /\ tlog' = <<>>
            /\ ncalls' = ncalls + 1
    /\ UNCHANGED <<pipevars, samplevars, ret, pre, pushed, popped, callervars, graphvars,
                   nodevars, workervars, last, joining, phase>>

\* g.disconnect<int>(sp_cc1, 0) after the first run, g.disconnect<int>(sp_cc2, 0)
\* after the second: the inpin's disconnect, then the row of the registry.
\* A reset of d_pipe_sp while the thread of the node peeks is a data race.
TeeCut ==
    /\ status = "running"
    /\ op = "idle"
    /\ call[3] = "check"
    /\ call[2] < 3
    /\ LET x == input(IF call[2] = 1 THEN "c" ELSE "d", 0) IN
       \E out \in {inpin_disconnect(Heap, x)}
                    \cup (IF peeking(x.node) THEN {Crashed(Heap)} ELSE {}) :
         /\ pipes' = out.pipes
         /\ pin_pipe' = out.pin_pipe
         /\ status' = After(out)
         /\ ret' = out.status
         /\ connections' =
               IF out.status = "returned"
               THEN [connections EXCEPT ![x.node] = (0 :> <<"", 0>>)]
               ELSE connections
    /\ call' = <<call[1], call[2] + 1, IF call[2] = 2 THEN "join" ELSE "reset_pn">>
    /\ UNCHANGED <<tsize, samplevars, pre, pushed, popped, nconnect, d_producers,
                   d_transformers, d_consumers, d_threads, nodevars,
                   workervars, mainvars>>

\* g.connect<int>(sp_tc, 0, sp_cc1, 0) before the third run.  The write of
\* the inpin's d_pipe_sp while the thread of the node peeks is a data race.
TeeJoin ==
    /\ status = "running"
    /\ op = "idle"
    /\ call[3] = "join"
    /\ \E out \in producer_connect(Heap, "tee", "c", 0, 0)
                    \cup (IF peeking("c") THEN {Crashed(Heap)} ELSE {}) :
         /\ pipes' = out.pipes
         /\ pin_pipe' = out.pin_pipe
         /\ status' = After(out)
         /\ ret' = IF out.status = "returned" THEN "true" ELSE out.status
         /\ connections' =
               IF out.status = "returned"
               THEN [connections EXCEPT !["tee"][0] = <<"c", 0>>]
               ELSE connections
    /\ call' = <<call[1], call[2], "reset_pn">>
    /\ UNCHANGED <<tsize, samplevars, pre, pushed, popped, nconnect, d_producers,
                   d_transformers, d_consumers, d_threads, nodevars,
                   workervars, mainvars>>

\* sp_pn->reset(), sp_cc1->reset() and sp_cc2->reset(), one statement each
TeeReset ==
    /\ status = "running"
    /\ op = "idle"
    /\ call[3] \in {"reset_pn", "reset_cc1", "reset_cc2"}
    /\ n_left' = IF call[3] = "reset_pn" THEN [n_left EXCEPT !["p"] = r] ELSE n_left
    /\ received' = CASE call[3] = "reset_cc1" -> [received EXCEPT !["c"] = 0]
                     [] call[3] = "reset_cc2" -> [received EXCEPT !["d"] = 0]
                     [] OTHER -> received
    /\ call' = <<call[1], call[2],
                 CASE call[3] = "reset_pn" -> "reset_cc1"
                   [] call[3] = "reset_cc1" -> "reset_cc2"
                   [] OTHER -> "start">>
    /\ UNCHANGED <<pipevars, samplevars, ret, pre, pushed, popped, callervars, graphvars,
                   d_state_a, r, dummy, workervars, mainvars>>

\* the end of the block of the test: the graph is destroyed
TeeEnd ==
    /\ call[3] = "check"
    /\ call[2] = 3
    /\ GraphDestroy

\* the for loop of consumer<T>::operator()() and the while of tee::ready:
\* the peek, and each input(0).pop()
TeeReady(n) ==
    /\ Alive(n)
    /\ wpc[n] \in {"visit", "ready"}
    /\ IF wpc[n] = "visit"
       THEN /\ wpc' = [wpc EXCEPT ![n] =
                         IF inpin_peek(Heap, input(n, 0)) THEN "ready" ELSE "top"]
            /\ UNCHANGED <<pipes, held>>
       ELSE /\ pipes' = inpin_pop(Heap, input(n, 0)).pipes
            /\ held' = [held EXCEPT ![n] = inpin_pop_result(Heap, input(n, 0))]
            /\ wpc' = [wpc EXCEPT ![n] =
                         IF inpin_pop_result(Heap, input(n, 0)) = NoPacket
                         THEN "top" ELSE "got"]
    /\ UNCHANGED <<pin_pipe, tsize, samplevars, obsvars, callervars, graphvars, nodevars,
                   ws, woken, mainvars>>

\* a tee that would make no copy: the packet goes to output(0) alone
TeePushOnce(n) ==
    /\ Alive(n)
    /\ wpc[n] \in {"got", "move"}
    /\ pipes' = outpin_push(Heap, output(n, 0), held[n]).pipes
    /\ held' = [held EXCEPT ![n] = NoPacket]
    /\ wpc' = [wpc EXCEPT ![n] = "notify0"]
    /\ UNCHANGED <<pin_pipe, tsize, samplevars, obsvars, callervars, graphvars,
                   nodevars, ws, woken, mainvars>>

\* tee::ready: output(1).push(copy_p), then output(0).push(packet_p), each
\* up to the moment outpin<T>::push has left the pipe
TeePush(n) ==
    /\ Alive(n)
    /\ wpc[n] \in {"got", "move"}
    /\ LET k == IF wpc[n] = "got" THEN 1 ELSE 0 IN
         /\ pipes' = outpin_push(Heap, output(n, k), held[n]).pipes
         /\ held' = IF k = 0 THEN [held EXCEPT ![n] = NoPacket] ELSE held
         /\ wpc' = [wpc EXCEPT ![n] =
                      IF outpin_push_inpin_p(Heap, output(n, k), held[n]) # NoPin
                      THEN (IF k = 1 THEN "notify1" ELSE "notify0")
                      ELSE (IF k = 1 THEN "move" ELSE "ready")]
    /\ UNCHANGED <<pin_pipe, tsize, samplevars, obsvars, callervars, graphvars, nodevars,
                   ws, woken, mainvars>>

\* the end of each outpin<T>::push of the tee: inpin_p->incoming()
TeeNotify(n) ==
    /\ Alive(n)
    /\ wpc[n] \in {"notify1", "notify0"}
    /\ woken' = notified(far_end(output(n, IF wpc[n] = "notify1" THEN 1 ELSE 0)))
    /\ wpc' = [wpc EXCEPT ![n] = IF @ = "notify1" THEN "move" ELSE "ready"]
    /\ UNCHANGED <<pipevars, samplevars, obsvars, callervars, graphvars, nodevars,
                   ws, held, mainvars>>

NextTee ==
    \/ TeeStart
    \/ TeeHalt
    \/ TeeCut
    \/ TeeJoin
    \/ TeeReset
    \/ TeeEnd
    \/ StartStep
    \/ PauseStep
    \/ StopStep
    \/ StopJoin
    \/ Return
    \/ \E n \in TeeNodes : WorkerBegin(n)
    \/ \E n \in TeeNodes : WorkerExit(n)
    \/ ProducerLoop("p")
    \/ \E n \in TeeNodes : ConsumerLoop(n)
    \/ \E n \in TeeNodes : Wake(n)
    \/ \E n \in TeeNodes : SpuriousWake(n)
    \/ ProducerProduce("p")
    \/ WorkerNotify("p")
    \/ \E n \in {"c", "d"} : ConsumerVisit(n)
    \/ TeeReady("tee")
    \/ TeePush("tee")
    \/ TeeNotify("tee")

SpecTee == InitTee /\ [][NextTee]_vars

\* C16: the test runs to its end, and at each of its three checks the
\* counters hold what the test expects: N and N after the first run, 0 at
\* c and N at d after the run with the inpin of c disconnected, N at c and
\* 0 at d after the run with the inpin of d disconnected and output 0 of
\* the tee connected to c again; whether the graph was paused, stopped or
\* left running between the runs.
C16_ReconnectDelivers ==
    /\ status = "running"
    /\ (call[3] = "check" /\ op = "idle") =>
          /\ received["c"] = (IF call[2] = 2 THEN 0 ELSE r)
          /\ received["d"] = (IF call[2] = 3 THEN 0 ELSE r)

-----------------------------------------------------------------------------
(* SpecFlow: the graphs of the tee, add and add_delay tests, started.  The *)
(* owning thread pushes through the pushers p and q and pops through the   *)
(* poppers c and d, whose own threads touch no pipe (pusher::produce is    *)
(* empty, popper::ready notifies the thread that pops); the sample node    *)
(* between them, a tee, an adder of strings or a delay, runs on its        *)
(* thread.  pushed and popped keep what went in and what came out.         *)

FlowKinds == {"tee", "adder", "delay"}

\* the graph each test builds around its sample node
FlowEdges(x) ==
    CASE x = "tee" -> <<<<output("p", 0), input("tee", 0)>>,
                        <<output("tee", 0), input("c", 0)>>,
                        <<output("tee", 1), input("d", 0)>>>>
      [] x = "adder" -> <<<<output("p", 0), input("adder", 0)>>,
                          <<output("q", 0), input("adder", 1)>>,
                          <<output("adder", 0), input("c", 0)>>>>
      [] x = "delay" -> <<<<output("p", 0), input("delay", 0)>>,
                          <<output("delay", 0), input("c", 0)>>>>
      [] x = "half" -> <<<<output("p", 0), input("adder", 0)>>,
                         <<output("adder", 0), input("c", 0)>>>>
      [] x = "count" -> <<<<output("p", 0), input("t", 0)>>,
                          <<output("t", 0), input("c", 0)>>>>
      [] OTHER -> <<<<output("p", 0), input("c", 0)>>>>

RECURSIVE Wired(_, _)
\* the heap after the first k connects of the test
Wired(es, k) ==
    IF k = 0 THEN EmptyHeap
    ELSE connect_new(Wired(es, k - 1), es[k][1], es[k][2], 0, 0)

\* the graph after add, connect and start() have returned and every thread
\* has read its state
Running(x, N) ==
    /\ LET es == FlowEdges(x)
             h  == Wired(es, Len(es))
             ns == {es[k][1].node : k \in 1..Len(es)} \cup {es[k][2].node : k \in 1..Len(es)}
         IN  /\ pipes = h.pipes
             /\ pin_pipe = h.pin_pipe
             /\ tsize = IF x \in {"adder", "half"} THEN SizeofString ELSE SizeofInt
             /\ d_transformers = ns \cap ({"t"} \cup FlowKinds)
             /\ d_producers = ns \cap {"p", "q"}
             /\ d_consumers = ns \cap {"c", "d"}
             /\ d_threads = ns
             /\ connections = [n \in ns |->
                   [j \in {es[k][1].idx : k \in {m \in 1..Len(es) : es[m][1].node = n}} |->
                      LET e == CHOOSE k \in 1..Len(es) : es[k][1] = output(n, j)
                      IN  <<es[e][2].node, es[e][2].idx>>]]
             /\ d_state_a = [n \in Nodes |-> IF n \in ns THEN "started" ELSE "paused"]
             /\ ws = [n \in Nodes |-> IF n \in ns THEN "started" ELSE "paused"]
             /\ wpc = [n \in Nodes |-> IF n \in ns THEN "top" ELSE "none"]
             /\ live = [n \in Nodes |-> IF n \in ns THEN 1 ELSE 0]
             /\ nconnect = Len(es)
    /\ call = <<"start">>
    /\ ret = "none"
    /\ pre = EmptyHeap
    /\ pushed = <<>>
    /\ popped = <<>>
    /\ status = "running"
    /\ held = [n \in Nodes |-> NoPacket]
    /\ woken = [n \in Nodes |-> FALSE]
    /\ received = [n \in Nodes |-> 0]
    /\ op = "idle"
    /\ last = "start"
    /\ todo = <<>>
    /\ joining = "none"
    /\ tlog = <<>>
    /\ phase = "run"
    /\ ncalls = 1
    /\ dummy = FALSE
    /\ r = N
    /\ n_left = [n \in Nodes |-> IF n = "p" THEN N ELSE 0]

InitFlow ==
    /\ \E x \in FlowKinds : Running(x, 0)
    /\ NoSamples

\* what the tests push: ints through the tee, strings into the adder, an
\* int with or without a consumption time into the delay and into the
\* ostreamer
FlowPackets ==
    IF "adder" \in d_transformers THEN {packet("a"), packet("b")}
    ELSE IF "tee" \notin d_transformers
         THEN {[data |-> x, consumption_time |-> t] : x \in 1..MaxData, t \in 0..MaxTime}
         ELSE Packets

\* pusher<T>::push: output(0).push(packet_p), with its incoming()
FlowPush(o) ==
    /\ status = "running"
    /\ pin_pipe[o] # NoPipe
    /\ Len(pushed) < MaxFlowPushes
    /\ \E pkt \in FlowPackets :
         /\ pipes' = outpin_push(Heap, o, pkt).pipes
         /\ ret' = outpin_push_result(Heap, o, pkt)
         /\ pushed' = IF pipes' # pipes
                      THEN Append(pushed, [o |-> o, pkt |-> pkt, at |-> now])
                      ELSE pushed
         /\ woken' = IF outpin_push_inpin_p(Heap, o, pkt) # NoPin
                     THEN notified(outpin_push_inpin_p(Heap, o, pkt)) ELSE woken
    /\ call' = <<"push", o>>
    /\ UNCHANGED <<pin_pipe, tsize, samplevars, pre, popped, callervars, graphvars,
                   nodevars, wpc, ws, held, mainvars>>

\* popper<T>::pop: waits until input(0).peek(), then input(0).pop()
FlowPop(i) ==
    /\ status = "running"
    /\ inpin_peek(Heap, i)
    /\ pipes' = inpin_pop(Heap, i).pipes
    /\ ret' = inpin_pop_result(Heap, i)
    /\ call' = <<"pop", i>>
    /\ popped' = Append(popped, [i |-> i, pkt |-> inpin_pop_result(Heap, i)])
    /\ UNCHANGED <<pin_pipe, tsize, samplevars, pre, pushed, callervars, GraphIdle>>

\* time passes
Tick ==
    /\ status = "running"
    /\ now < MaxTime
    /\ now' = now + 1
    /\ UNCHANGED <<live, pipevars, clockvars, streamvars, lockvars, obsvars, callervars,
                   GraphIdle>>

RECURSIVE adder_sum_reversed(_, _)
\* a ready() of the adder that would sum the terms from the last input down
adder_sum_reversed(terms, k) ==
    IF k = 0 THEN terms[0].data
    ELSE terms[k].data \o adder_sum_reversed(terms, k - 1)

RECURSIVE adder_sum(_, _)
\* adder::ready: T sum(terms[0]->data()), then sum += for every other term
adder_sum(terms, k) ==
    IF k = 0 THEN terms[0].data
    ELSE adder_sum(terms, k - 1) \o terms[k].data

RECURSIVE adder_pops(_, _, _)
\* adder::ready: inpin.pop() on the first k inputs
adder_pops(h, n, k) ==
    IF k = 0 THEN h ELSE inpin_pop(adder_pops(h, n, k - 1), input(n, k - 1))

\* the for loop of consumer<T>::operator()() over the inpins of the adder:
\* the peek of input(i), and adder::ready(i) to its end, incoming() included
AdderVisit(n) ==
    /\ Alive(n)
    /\ wpc[n] \in {"visit", "visit1"}
    /\ LET i     == IF wpc[n] = "visit" THEN 0 ELSE 1
           fires == /\ inpin_peek(Heap, input(n, i))
                    /\ \A j \in 0..(ins(n) - 1) : inpin_peek(Heap, input(n, j))
           terms == [j \in 0..(ins(n) - 1) |-> inpin_pop_result(Heap, input(n, j))]
           sum_up == packet(adder_sum(terms, ins(n) - 1))
           h1    == adder_pops(Heap, n, ins(n))
       IN  /\ pipes' = IF fires THEN outpin_push(h1, output(n, 0), sum_up).pipes ELSE pipes
           /\ woken' = IF fires /\ outpin_push_inpin_p(h1, output(n, 0), sum_up) # NoPin
                       THEN notified(outpin_push_inpin_p(h1, output(n, 0), sum_up))
                       ELSE woken
           /\ wpc' = [wpc EXCEPT ![n] = IF i + 1 < ins(n) THEN "visit1" ELSE "top"]
    /\ UNCHANGED <<pin_pipe, tsize, samplevars, obsvars, callervars, graphvars,
                   nodevars, ws, held, mainvars>>

\* a delay that would leave the consumption time as it came
delay_stamp_none(pkt, t) ==
    pkt

\* delay::ready: the consumption time of the packet it passes on
delay_stamp(pkt, t) ==
    IF pkt.consumption_time = 0
    THEN [pkt EXCEPT !.consumption_time = t + d_offset]
    ELSE [pkt EXCEPT !.consumption_time = @ + d_offset]

\* delay::ready: the packet it popped is stamped and pushed on output(0),
\* up to the moment outpin<T>::push has left the pipe
DelayPush(n) ==
    /\ Alive(n)
    /\ wpc[n] = "got"
    /\ LET pkt == delay_stamp(held[n], now) IN
         /\ pipes' = outpin_push(Heap, output(n, 0), pkt).pipes
         /\ wpc' = [wpc EXCEPT ![n] =
                      IF outpin_push_inpin_p(Heap, output(n, 0), pkt) # NoPin
                      THEN "notify0" ELSE "ready"]
    /\ held' = [held EXCEPT ![n] = NoPacket]
    /\ UNCHANGED <<pin_pipe, tsize, samplevars, obsvars, callervars, graphvars,
                   nodevars, ws, woken, mainvars>>

NextFlow ==
    \/ \E o \in {output("p", 0), output("q", 0)} : FlowPush(o)
    \/ \E i \in {input("c", 0), input("d", 0)} : FlowPop(i)
    \/ Tick
    \/ \E n \in FlowKinds : ConsumerLoop(n)
    \/ \E n \in FlowKinds : Wake(n)
    \/ \E n \in {"tee", "delay"} : TeeReady(n)
    \/ TeePush("tee")
    \/ \E n \in {"tee", "delay"} : TeeNotify(n)
    \/ AdderVisit("adder")
    \/ DelayPush("delay")

SpecFlow == InitFlow /\ [][NextFlow]_vars

\* the packets pushed on the outpin o, in order
Sent(o) ==
    LET es == SelectSeq(pushed, LAMBDA e : e.o = o)
    IN  [j \in 1..Len(es) |-> es[j].pkt]

\* the packets that reached the inpin i, in order: those popped from it,
\* then those that wait in its pipe
Got(i) ==
    LET es == SelectSeq(popped, LAMBDA e : e.i = i)
    IN  [j \in 1..Len(es) |-> es[j].pkt] \o pipes[pin_pipe[i]].d_packets

\* the sample node holds no packet: its inpins are empty and no ready() is
\* under way
FlowRested ==
    \A n \in d_transformers :
       /\ \A k \in 0..(ins(n) - 1) : ~inpin_peek(Heap, input(n, k))
       /\ held[n] = NoPacket
       /\ wpc[n] \notin {"got", "move", "notify1", "notify0"}

\* C23: with a tee of two outputs, the packets that reach each downstream
\* consumer are at any time the first of the packets pushed into the tee,
\* with their values and in their order, and once the tee holds no packet
\* each consumer has received every packet pushed: one packet on each
\* output for each input packet.
C23_TeeCopiesInOrder ==
    "tee" \in d_transformers =>
        \A i \in {input("c", 0), input("d", 0)} :
            LET in  == Sent(output("p", 0))
                out == Got(i)
            IN  /\ Len(out) <= Len(in)
                /\ \A j \in 1..Len(out) : out[j] = in[j]
                /\ FlowRested => out = in

\* three packets, not all of one value, went through the tee and both
\* poppers have popped all three
C23_Witness ==
    /\ "tee" \in d_transformers
    /\ Len(pushed) = 3
    /\ pushed[1].pkt # pushed[2].pkt
    /\ Len(popped) = 6
    /\ FlowRested

\* C24: with an adder of two inputs, at any time the number of packets
\* popped from each input equals the number of sums emitted, the j-th sum
\* is the j-th packet of input 0 with the j-th packet of input 1 added to
\* it by +=, and the adder does not wait while every input holds a packet.
C24_AdderSumsTuples ==
    "adder" \in d_transformers =>
        LET in0 == Sent(output("p", 0))
            in1 == Sent(output("q", 0))
            out == Got(input("c", 0))
        IN  /\ Len(in0) - length(pipes[pin_pipe[input("adder", 0)]]) = Len(out)
            /\ Len(in1) - length(pipes[pin_pipe[input("adder", 1)]]) = Len(out)
            /\ \A j \in 1..Len(out) : out[j] = packet(in0[j].data \o in1[j].data)
            /\ (wpc["adder"] = "swait" /\ ~woken["adder"]) =>
                  \E k \in 0..1 : ~inpin_peek(Heap, input("adder", k))

\* the popper has popped the sum "ab" of an "a" on input 0 and a "b" on
\* input 1 while a third packet waits at one input
C24_Witness ==
    /\ "adder" \in d_transformers
    /\ Len(pushed) = 3
    /\ Len(popped) = 1
    /\ popped[1].pkt.data = "ab"
    /\ \E k \in 0..1 : inpin_peek(Heap, input("adder", k))

\* C25: every packet that leaves the delay has the value of the packet
\* that entered at the same position, and a consumption time of at least
\* the one it came with plus the offset, or, if it came without one, of at
\* least the time it was pushed into the delay plus the offset.
C25_DelayAddsOffset ==
    "delay" \in d_transformers =>
        LET in  == SelectSeq(pushed, LAMBDA e : e.o = output("p", 0))
            out == Got(input("c", 0))
        IN  /\ Len(out) <= Len(in)
            /\ FlowRested => Len(out) = Len(in)
            /\ \A j \in 1..Len(out) :
                  /\ out[j].data = in[j].pkt.data
                  /\ out[j].consumption_time >=
                        (IF in[j].pkt.consumption_time # 0
                         THEN in[j].pkt.consumption_time ELSE in[j].at) + d_offset

\* two packets have left the delay: the first came without a consumption
\* time and was stamped later than it arrived, the second came with one
C25_Witness ==
    /\ "delay" \in d_transformers
    /\ Len(popped) = 2
    /\ pushed[1].pkt.consumption_time = 0
    /\ pushed[2].pkt.consumption_time # 0
    /\ popped[1].pkt.consumption_time > pushed[1].at + d_offset
    /\ popped[2].pkt.consumption_time = pushed[2].pkt.consumption_time + d_offset
    /\ popped[1].pkt.data # popped[2].pkt.data

-----------------------------------------------------------------------------
(* SpecClock: a monotonous_timer on its own thread, a generator that       *)
(* listens to it and pushes into the pipe of a popper, and the owner, who  *)
(* starts, pauses and stops the generator and stops the timer.             *)

\* generator<T>(timer_r, gen_f) and the thread mt_t(ref(mt)) of the
\* examples: the graph is started, the timer's thread is about to test
\* stopped(); the timer has the generator's timer_fired as listener 1
InitClock ==
    /\ Running("generator", 0)
    /\ now = 0
    /\ NoStream
    /\ NoLocks
    /\ d_stop_cr = FALSE
    /\ tpc = "test"
    /\ t_wake = 0
    /\ \E k \in 1..MaxListeners : fired = [l \in 1..k |-> 0]
    /\ ticks = 0

\* monotonous_timer::operator()(): while(!stopped())
TimerTest ==
    /\ status = "running"
    /\ tpc = "test"
    /\ tpc' = IF d_stop_cr THEN "done" ELSE "call"
    /\ UNCHANGED <<live, pipevars, lockvars, now, d_stop_cr, t_wake, fired, ticks, streamvars,
                   obsvars, callervars, GraphIdle>>

\* the for_each over the listeners, each called once under the lock of the
\* list, generator::timer_fired among them, and the start of the sleep
TimerFire ==
    /\ status = "running"
    /\ tpc = "call"
    /\ fired' = [l \in DOMAIN fired |-> fired[l] + 1]
    /\ d_awaken_m' = TRUE
    /\ ticks' = IF d_state_a["p"] = "started" THEN ticks + 1 ELSE ticks
    /\ t_wake' = now + d_interval
    /\ tpc' = "sleep"
    /\ UNCHANGED <<live, pipevars, lockvars, now, d_stop_cr, d_sleep_t, s_until, d_o_r, taken,
                   obsvars, callervars, GraphIdle>>

\* boost::thread::sleep(get_system_time() + d_interval) returns: the time
\* has come
TimerWake ==
    /\ status = "running"
    /\ tpc = "sleep"
    /\ now >= t_wake
    /\ tpc' = "test"
    /\ UNCHANGED <<live, pipevars, lockvars, now, d_stop_cr, t_wake, fired, ticks, streamvars,
                   obsvars, callervars, GraphIdle>>

\* timer::stop()
TimerStop ==
    /\ status = "running"
    /\ ~d_stop_cr
    /\ d_stop_cr' = TRUE
    /\ UNCHANGED <<live, pipevars, lockvars, now, tpc, t_wake, fired, ticks, streamvars,
                   obsvars, callervars, GraphIdle>>

\* the user function of the generator: here one that counts its calls
d_gen_f == Len(pushed) + 1

\* generator::produce: d_awaken_m.wait() returns once the flag is true and
\* clears it; unless the node is stopped, one packet of d_gen_f() is pushed
GeneratorProduce(n) ==
    /\ Alive(n)
    /\ wpc[n] = "produce"
    /\ d_awaken_m
    /\ d_awaken_m' = FALSE
    /\ IF d_state_a[n] # "stopped"
       THEN LET o   == output(n, 0)
                pkt == packet(d_gen_f)
            IN  /\ pipes' = outpin_push(Heap, o, pkt).pipes
                /\ pushed' = IF pipes' # pipes
                             THEN Append(pushed, [o |-> o, pkt |-> pkt, at |-> now])
                             ELSE pushed
                /\ woken' = IF outpin_push_inpin_p(Heap, o, pkt) # NoPin
                            THEN notified(outpin_push_inpin_p(Heap, o, pkt)) ELSE woken
       ELSE UNCHANGED <<pipes, pushed, woken>>
    /\ wpc' = [wpc EXCEPT ![n] = "top"]
    /\ UNCHANGED <<live, pin_pipe, tsize, lockvars, now, clockvars, d_sleep_t, s_until, d_o_r, taken,
                   call, ret, pre, popped, callervars, graphvars, nodevars,
                   ws, held, mainvars>>

\* the owner's start(), pause() or stop() of a sample node: the state is
\* written and the worker notified; generator::stop and ostreamer::stop
\* then set d_awaken_m
SampleCall(n, s) ==
    /\ status = "running"
    /\ d_state_a[n] \notin {s, "stopped"}
    /\ transition(n, s)
    /\ d_awaken_m' = IF s = "stopped" THEN TRUE ELSE d_awaken_m
    /\ UNCHANGED <<live, pipevars, lockvars, now, clockvars, d_sleep_t, s_until, d_o_r, taken,
                   obsvars, callervars, graphvars, n_left, r, dummy, received,
                   wpc, ws, held, mainvars>>

NextClock ==
    \/ TimerTest
    \/ TimerFire
    \/ TimerWake
    \/ TimerStop
    \/ Tick
    \/ \E s \in States : SampleCall("p", s)
    \/ ProducerLoop("p")
    \/ Wake("p")
    \/ WorkerExit("p")
    \/ GeneratorProduce("p")
    \/ FlowPop(input("c", 0))

SpecClock == InitClock /\ [][NextClock]_vars

\* C27: the generator has never pushed more packets than ticks were
\* delivered to timer_fired while it was started, and whenever it waits
\* for the next tick, or its thread has ended, it has pushed one packet
\* for each of those ticks.
C27_OnePacketPerTick ==
    LET n == Len(Sent(output("p", 0))) IN
    /\ n <= ticks
    /\ ((wpc["p"] = "produce" /\ ~d_awaken_m) \/ wpc["p"] = "exited") => n = ticks

\* C28: every listener has been called once on each tick, and a timer
\* that was stopped while it waits out its interval can leave the wait at
\* once, whatever the time.
C28_StopInterruptsWait ==
    /\ \A l \in DOMAIN fired : fired[l] = fired[1]
    /\ (d_stop_cr /\ tpc = "sleep") => ENABLED TimerWake

-----------------------------------------------------------------------------
(* SpecStream: a pusher, an ostreamer on its thread, the thread d_sleep_t  *)
(* that ostreamer::ready starts, the clock, and the owner, who may stop    *)
(* the ostreamer.                                                          *)

InitStream ==
    /\ Running("ostreamer", 0)
    /\ NoSamples

\* ostreamer::ready, for the packet the while has just popped: the test of
\* the state, then the three cases of consumption_time(). An assignment to
\* d_sleep_t while it is joinable calls std::terminate.
OstreamerReady(n) ==
    /\ Alive(n)
    /\ wpc[n] = "got"
    /\ LET pkt == held[n]
           ct  == pkt.consumption_time
       IN  IF d_state_a[n] = "stopped"
           THEN /\ wpc' = [wpc EXCEPT ![n] = "top"]
                /\ held' = [held EXCEPT ![n] = NoPacket]
                /\ UNCHANGED <<status, d_sleep_t, s_until, d_o_r, taken>>
           ELSE /\ taken' = Append(taken, [pkt |-> pkt, at |-> now])
                /\ IF ct = 0
                   THEN /\ d_o_r' = Append(d_o_r, [pkt |-> pkt, at |-> now])
                        /\ wpc' = [wpc EXCEPT ![n] = "ready"]
                        /\ held' = [held EXCEPT ![n] = NoPacket]
                        /\ UNCHANGED <<status, d_sleep_t, s_until>>
                   ELSE IF ct > now
                   THEN IF d_sleep_t # "none"
                        THEN /\ status' = "crashed"
                             /\ UNCHANGED <<wpc, held, d_sleep_t, s_until, d_o_r>>
                        ELSE /\ d_sleep_t' = "sleeping"
                             /\ s_until' = ct
                             /\ wpc' = [wpc EXCEPT ![n] = "await"]
                             /\ UNCHANGED <<status, held, d_o_r>>
                   ELSE /\ wpc' = [wpc EXCEPT ![n] = "ready"]
                        /\ held' = [held EXCEPT ![n] = NoPacket]
                        /\ UNCHANGED <<status, d_sleep_t, s_until, d_o_r>>
    /\ UNCHANGED <<live, pipevars, lockvars, now, clockvars, d_awaken_m, obsvars, nconnect,
                   graphvars, nodevars, ws, woken, mainvars>>

\* ostreamer::ready: d_awaken_m.wait() returns once the flag is true and
\* clears it; the packet is streamed unless the node is stopped
OstreamerAwake(n) ==
    /\ Alive(n)
    /\ wpc[n] = "await"
    /\ d_awaken_m
    /\ d_awaken_m' = FALSE
    /\ d_o_r' = IF d_state_a[n] # "stopped"
                THEN Append(d_o_r, [pkt |-> held[n], at |-> now]) ELSE d_o_r
    /\ held' = [held EXCEPT ![n] = NoPacket]
    /\ wpc' = [wpc EXCEPT ![n] = "ready"]
    /\ UNCHANGED <<live, pipevars, lockvars, now, clockvars, d_sleep_t, s_until, taken, obsvars,
                   callervars, graphvars, nodevars, ws, woken, mainvars>>

\* ostreamer::sleep on the thread d_sleep_t: sleep_until(time_r) returns
\* and the flag is set; the thread has ended and was not joined
OstreamerSleep ==
    /\ status = "running"
    /\ d_sleep_t = "sleeping"
    /\ now >= s_until
    /\ d_awaken_m' = TRUE
    /\ d_sleep_t' = "finished"
    /\ UNCHANGED <<live, pipevars, lockvars, now, clockvars, s_until, d_o_r, taken, obsvars,
                   callervars, GraphIdle>>

NextStream ==
    \/ FlowPush(output("p", 0))
    \/ Tick
    \/ SampleCall("c", "stopped")
    \/ ConsumerLoop("c")
    \/ Wake("c")
    \/ WorkerExit("c")
    \/ TeeReady("c")
    \/ OstreamerReady("c")
    \/ OstreamerAwake("c")
    \/ OstreamerSleep

SpecStream == InitStream /\ [][NextStream]_vars

\* C26: ready() deals with every packet it pops while the node is not
\* stopped. What was streamed is, in order, the first of the popped
\* packets whose deadline was unset or in the future; one without deadline
\* was streamed at the time it was popped, one with a future deadline not
\* before its deadline; while the node is started and ready() holds no
\* packet, every such packet has been streamed.
C26_StreamsByDeadline ==
    LET due == SelectSeq(taken, LAMBDA e : e.pkt.consumption_time = 0
                                           \/ e.pkt.consumption_time > e.at)
    IN  /\ status # "crashed"
        /\ Len(d_o_r) <= Len(due)
        /\ \A j \in 1..Len(d_o_r) :
              /\ d_o_r[j].pkt = due[j].pkt
              /\ d_o_r[j].pkt.consumption_time = 0 => d_o_r[j].at = due[j].at
              /\ d_o_r[j].at >= d_o_r[j].pkt.consumption_time
        /\ (d_state_a["c"] = "started" /\ held["c"] = NoPacket) => Len(d_o_r) = Len(due)

-----------------------------------------------------------------------------
(* SpecFair: the graph of the count test, produce_n -> transformation_     *)
(* counter -> consumption_counter, started and left started, each thread   *)
(* scheduled fairly. Each push is two steps, the push into the pipe and    *)
(* the incoming() that follows it.                                         *)

FairNodes == {"p", "t", "c"}

InitFair ==
    /\ \E N \in 1..MaxN : Running("count", N)
    /\ NoSamples

\* the steps of the thread of n while the graph stays started
FairWorker(n) ==
    \/ ProducerLoop(n)
    \/ ConsumerLoop(n)
    \/ Wake(n)
    \/ ProducerProduce(n)
    \/ WorkerNotify(n)
    \/ ConsumerVisit(n)
    \/ TransformerPush(n)

NextFair == \E n \in FairNodes : FairWorker(n)

\* every thread that can take a step is given one in the end
SpecFair ==
    /\ InitFair
    /\ [][NextFair]_vars
    /\ \A n \in FairNodes : WF_vars(FairWorker(n))

\* the packets that ready(0) of the node n has popped from its inpin
Handed(n) ==
    IF n = "c" THEN received["c"]
    ELSE r - n_left["p"] - length(pipes[pin_pipe[input("t", 0)]])

\* the packets pushed into the pipe of the inpin of n
Arrived(n) == Handed(n) + length(pipes[pin_pipe[input(n, 0)]])

\* C29: for each of the two consumers, which stay started, and every k:
\* once k packets have been pushed into the pipe of its inpin, ready() is
\* in the end handed k packets.
C29_NoLostWakeup ==
    \A n \in {"t", "c"} : \A k \in 1..MaxN :
        (Arrived(n) >= k) ~> (Handed(n) >= k)

\* a packet lies in the pipe of a consumer that has found its predicate
\* false and waits, and the producer has not yet called incoming()
C29_Witness ==
    \E n \in {"t", "c"} :
        /\ wpc[n] = "swait"
        /\ ~woken[n]
        /\ inpin_peek(Heap, input(n, 0))
        /\ wpc[IF n = "t" THEN "p" ELSE "t"] = "notify"

-----------------------------------------------------------------------------
(* SpecLocks: the mutexes. A thread that pushes on the outpin of p, the    *)
(* thread of the consumer c at the other end of the pipe, and the owner,   *)
(* who changes the state of c. Every lock is a step of its own, so that a  *)
(* thread is seen holding what it holds.                                   *)

\* the mutex of the pipe, d_pipe_sp->second, and the d_transition_m of c
Mutexes == {"pipe_m", "d_transition_m"}

\* nobody holds the mutex m
Free(m) == \A th \in Threads : \A j \in 1..Len(locked[th]) : locked[th][j] # m

\* std::lock_guard / std::unique_lock: the constructor, once m is free
lock(th, m) == [locked EXCEPT ![th] = Append(@, m)]

\* the end of the scope of the innermost k locks of th
unlock(th, k) == [locked EXCEPT ![th] = SubSeq(@, 1, Len(@) - k)]

\* the mutex the next step of th has to take, or "none"
wants(th) ==
    CASE lpc[th] \in {"push", "visit", "ready"} -> "pipe_m"
      [] lpc[th] = "spred" /\ d_state_a["c"] = "started" -> "pipe_m"
      [] lpc[th] \in {"signal", "transition"} -> "d_transition_m"
      [] lpc[th] = "top" /\ ws["c"] # "stopped" -> "d_transition_m"
      [] lpc[th] \in {"pwaiting", "swaiting"} /\ woken["c"] -> "d_transition_m"
      [] OTHER -> "none"

\* th can go on: it needs no mutex, or the one it needs is free
CanStep(th) == status = "running" /\ (wants(th) = "none" \/ Free(wants(th)))

InitLocks ==
    /\ Running("pair", 0)
    /\ now = 0
    /\ NoClock
    /\ NoStream
    /\ locked = [th \in Threads |-> <<>>]
    /\ lpc = [th \in Threads |-> IF th = "c" THEN "top" ELSE "idle"]
    /\ hooks = <<>>

\* an outpin<T>::push that would call incoming() inside the scope of the
\* lock_guard
LockedPushNested(th) ==
    /\ CanStep(th)
    /\ lpc[th] \in {"idle", "push", "pushing", "signal", "notify"}
    /\ LET o == output("p", 0) IN
       CASE lpc[th] = "idle" ->
              /\ Len(pushed) < MaxFlowPushes
              /\ lpc' = [lpc EXCEPT ![th] = "push"]
              /\ UNCHANGED <<locked, pipes, pushed, woken>>
         [] lpc[th] = "push" ->
              /\ locked' = lock(th, "pipe_m")
              /\ lpc' = [lpc EXCEPT ![th] = "pushing"]
              /\ UNCHANGED <<pipes, pushed, woken>>
         [] lpc[th] = "pushing" ->
              /\ pipes' = outpin_push(Heap, o, packet(1)).pipes
              /\ pushed' = IF pipes' # pipes
                           THEN Append(pushed, [o |-> o, pkt |-> packet(1), at |-> now])
                           ELSE pushed
              /\ lpc' = [lpc EXCEPT ![th] = "signal"]
              /\ UNCHANGED <<locked, woken>>
         [] lpc[th] = "signal" ->
              /\ locked' = lock(th, "d_transition_m")
              /\ lpc' = [lpc EXCEPT ![th] = "notify"]
              /\ UNCHANGED <<pipes, pushed, woken>>
         [] lpc[th] = "notify" ->
              /\ woken' = [woken EXCEPT !["c"] =
                             IF lpc["c"] \in {"pwaiting", "swaiting"} THEN TRUE ELSE @]
              /\ locked' = unlock(th, 2)
              /\ lpc' = [lpc EXCEPT ![th] = "idle"]
              /\ UNCHANGED <<pipes, pushed>>
    /\ UNCHANGED <<live, pin_pipe, tsize, hooks, now, clockvars, streamvars, call, ret, pre,
                   popped, callervars, graphvars, nodevars, wpc, ws, held, mainvars>>

\* outpin<T>::push, lock by lock: the lock_guard on the pipe's mutex, the
\* push and the end of the block; then, if the pipe took the packet,
\* inpin::incoming: the unique_lock on d_transition_m, notify_one, return
LockedPush(th) ==
    /\ CanStep(th)
    /\ lpc[th] \in {"idle", "push", "pushing", "signal", "notify"}
    /\ LET o == output("p", 0) IN
       CASE lpc[th] = "idle" ->
              /\ Len(pushed) < MaxFlowPushes
              /\ lpc' = [lpc EXCEPT ![th] = "push"]
              /\ UNCHANGED <<locked, pipes, pushed, woken>>
         [] lpc[th] = "push" ->
              /\ locked' = lock(th, "pipe_m")
              /\ lpc' = [lpc EXCEPT ![th] = "pushing"]
              /\ UNCHANGED <<pipes, pushed, woken>>
         [] lpc[th] = "pushing" ->
              /\ pipes' = outpin_push(Heap, o, packet(1)).pipes
              /\ pushed' = IF pipes' # pipes
                           THEN Append(pushed, [o |-> o, pkt |-> packet(1), at |-> now])
                           ELSE pushed
              /\ locked' = unlock(th, 1)
              /\ lpc' = [lpc EXCEPT ![th] =
                           IF outpin_push_inpin_p(Heap, o, packet(1)) # NoPin
                           THEN "signal" ELSE "idle"]
              /\ UNCHANGED woken
         [] lpc[th] = "signal" ->
              /\ locked' = lock(th, "d_transition_m")
              /\ lpc' = [lpc EXCEPT ![th] = "notify"]
              /\ UNCHANGED <<pipes, pushed, woken>>
         [] lpc[th] = "notify" ->
              /\ woken' = [woken EXCEPT !["c"] =
                             IF lpc["c"] \in {"pwaiting", "swaiting"} THEN TRUE ELSE @]
              /\ locked' = unlock(th, 1)
              /\ lpc' = [lpc EXCEPT ![th] = "idle"]
              /\ UNCHANGED <<pipes, pushed>>
    /\ UNCHANGED <<live, pin_pipe, tsize, hooks, now, clockvars, streamvars, call, ret, pre,
                   popped, callervars, graphvars, nodevars, wpc, ws, held, mainvars>>

\* consumer<T>::operator()(), lock by lock, up to the for loop: the
\* unique_lock on d_transition_m, the predicate of the wait with the peek
\* of incoming() under the pipe's mutex, the wait itself, which gives
\* d_transition_m up, and the wake-up, which takes it again
LockedWait(th) ==
    /\ CanStep(th)
    /\ lpc[th] \in {"top", "ppred", "spred", "speek", "pwaiting", "swaiting"}
    /\ CASE lpc[th] = "top" ->
              IF ws["c"] = "stopped"
              THEN /\ lpc' = [lpc EXCEPT ![th] = "exited"]
                   /\ UNCHANGED <<locked, ws, woken>>
              ELSE /\ locked' = lock(th, "d_transition_m")
                   /\ lpc' = [lpc EXCEPT ![th] =
                                IF ws["c"] = "paused" THEN "ppred" ELSE "spred"]
                   /\ UNCHANGED <<ws, woken>>
         [] lpc[th] = "ppred" ->
              /\ ws' = [ws EXCEPT !["c"] = d_state_a["c"]]
              /\ locked' = unlock(th, 1)
              /\ lpc' = [lpc EXCEPT ![th] =
                           IF d_state_a["c"] # "paused" THEN "top" ELSE "pwaiting"]
              /\ UNCHANGED woken
         [] lpc[th] = "spred" ->
              /\ ws' = [ws EXCEPT !["c"] = d_state_a["c"]]
              /\ IF d_state_a["c"] # "started"
                 THEN /\ locked' = unlock(th, 1)
                      /\ lpc' = [lpc EXCEPT ![th] = "top"]
                 ELSE /\ locked' = lock(th, "pipe_m")
                      /\ lpc' = [lpc EXCEPT ![th] = "speek"]
              /\ UNCHANGED woken
         [] lpc[th] = "speek" ->
              /\ locked' = unlock(th, 2)
              /\ lpc' = [lpc EXCEPT ![th] =
                           IF inpin_peek(Heap, input("c", 0)) THEN "visit" ELSE "swaiting"]
              /\ UNCHANGED <<ws, woken>>
         [] OTHER ->
              /\ woken["c"]
              /\ woken' = [woken EXCEPT !["c"] = FALSE]
              /\ locked' = lock(th, "d_transition_m")
              /\ lpc' = [lpc EXCEPT ![th] =
                           IF lpc[th] = "pwaiting" THEN "ppred" ELSE "spred"]
              /\ UNCHANGED ws
    /\ UNCHANGED <<live, pipevars, hooks, now, clockvars, streamvars, obsvars, callervars,
                   graphvars, nodevars, wpc, held, mainvars>>

\* the for loop of consumer<T>::operator()(), lock by lock: inpin::peek
\* under the pipe's mutex, then ready(0) with its inpin::pop under the
\* pipe's mutex; no d_transition_m is held here
LockedReady(th) ==
    /\ CanStep(th)
    /\ lpc[th] \in {"visit", "vpeek", "ready", "popping"}
    /\ CASE lpc[th] \in {"visit", "ready"} ->
              /\ locked' = lock(th, "pipe_m")
              /\ lpc' = [lpc EXCEPT ![th] = IF @ = "visit" THEN "vpeek" ELSE "popping"]
              /\ UNCHANGED <<pipes, received>>
         [] lpc[th] = "vpeek" ->
              /\ locked' = unlock(th, 1)
              /\ lpc' = [lpc EXCEPT ![th] =
                           IF inpin_peek(Heap, input("c", 0)) THEN "ready" ELSE "top"]
              /\ UNCHANGED <<pipes, received>>
         [] OTHER ->
              /\ pipes' = inpin_pop(Heap, input("c", 0)).pipes
              /\ received' = [received EXCEPT !["c"] = @ + 1]
              /\ locked' = unlock(th, 1)
              /\ lpc' = [lpc EXCEPT ![th] = "top"]
    /\ UNCHANGED <<live, pin_pipe, tsize, hooks, now, clockvars, streamvars, obsvars, callervars,
                   graphvars, d_state_a, n_left, r, dummy, workervars, mainvars>>

\* a transition that would call the hook after it has notified the
\* worker and given up d_transition_m
LockedTransitionHookLast(th) ==
    /\ CanStep(th)
    /\ lpc[th] \in {"idle", "transition", "write", "hook", "notify"}
    /\ CASE lpc[th] = "idle" ->
              /\ d_state_a["c"] # "stopped"
              /\ Len(hooks) < MaxHooks
              /\ lpc' = [lpc EXCEPT ![th] = "transition"]
              /\ UNCHANGED <<locked, d_state_a, woken, hooks>>
         [] lpc[th] = "transition" ->
              /\ locked' = lock(th, "d_transition_m")
              /\ lpc' = [lpc EXCEPT ![th] = "write"]
              /\ UNCHANGED <<d_state_a, woken, hooks>>
         [] lpc[th] = "write" ->
              /\ \E s \in States \ {d_state_a["c"]} :
                    d_state_a' = [d_state_a EXCEPT !["c"] = s]
              /\ lpc' = [lpc EXCEPT ![th] = "notify"]
              /\ UNCHANGED <<locked, woken, hooks>>
         [] lpc[th] = "notify" ->
              /\ woken' = [woken EXCEPT !["c"] =
                             IF lpc["c"] \in {"pwaiting", "swaiting"} THEN TRUE ELSE @]
              /\ locked' = unlock(th, 1)
              /\ lpc' = [lpc EXCEPT ![th] = "hook"]
              /\ UNCHANGED <<d_state_a, hooks>>
         [] OTHER ->
              /\ hooks' = Append(hooks, d_state_a["c"])
              /\ lpc' = [lpc EXCEPT ![th] = "idle"]
              /\ UNCHANGED <<locked, d_state_a, woken>>
    /\ UNCHANGED <<live, pipevars, now, clockvars, streamvars, obsvars, callervars,
                   graphvars, n_left, r, dummy, received, wpc, ws, held, mainvars>>

\* node::transition(s) on the owner's thread, step by step: the
\* unique_lock on d_transition_m, the write of d_state_a, the call of
\* started(), paused() or stopped(), then notify_one and the return
LockedTransition(th) ==
    /\ CanStep(th)
    /\ lpc[th] \in {"idle", "transition", "write", "hook", "notify"}
    /\ CASE lpc[th] = "idle" ->
              /\ d_state_a["c"] # "stopped"
              /\ Len(hooks) < MaxHooks
              /\ lpc' = [lpc EXCEPT ![th] = "transition"]
              /\ UNCHANGED <<locked, d_state_a, woken, hooks>>
         [] lpc[th] = "transition" ->
              /\ locked' = lock(th, "d_transition_m")
              /\ lpc' = [lpc EXCEPT ![th] = "write"]
              /\ UNCHANGED <<d_state_a, woken, hooks>>
         [] lpc[th] = "write" ->
              /\ \E s \in States \ {d_state_a["c"]} :
                    d_state_a' = [d_state_a EXCEPT !["c"] = s]
              /\ lpc' = [lpc EXCEPT ![th] = "hook"]
              /\ UNCHANGED <<locked, woken, hooks>>
         [] lpc[th] = "hook" ->
              /\ hooks' = Append(hooks, d_state_a["c"])
              /\ lpc' = [lpc EXCEPT ![th] = "notify"]
              /\ UNCHANGED <<locked, d_state_a, woken>>
         [] OTHER ->
              /\ woken' = [woken EXCEPT !["c"] =
                             IF lpc["c"] \in {"pwaiting", "swaiting"} THEN TRUE ELSE @]
              /\ locked' = unlock(th, 1)
              /\ lpc' = [lpc EXCEPT ![th] = "idle"]
              /\ UNCHANGED <<d_state_a, hooks>>
    /\ UNCHANGED <<live, pipevars, now, clockvars, streamvars, obsvars, callervars,
                   graphvars, n_left, r, dummy, received, wpc, ws, held, mainvars>>

NextLocks ==
    \/ LockedPush("p")
    \/ LockedWait("c")
    \/ LockedReady("c")
    \/ LockedTransition("main")

SpecLocks == InitLocks /\ [][NextLocks]_vars

\* C30: every thread holds nothing, one mutex, or d_transition_m and
\* inside it the pipe's mutex, never d_transition_m inside the pipe's
\* mutex; and no two threads each wait for a mutex the other holds.
C30_LockOrder ==
    /\ \A th \in Threads :
          locked[th] \in {<<>>, <<"pipe_m">>, <<"d_transition_m">>,
                          <<"d_transition_m", "pipe_m">>}
    /\ \A a, b \in Threads :
          ~ /\ a # b
            /\ \E j \in 1..Len(locked[b]) : locked[b][j] = wants(a)
            /\ \E j \in 1..Len(locked[a]) : locked[a][j] = wants(b)

\* the consumer holds d_transition_m and, inside it, the pipe's mutex for
\* the peek of its predicate, while the producer, whose packet is in the
\* pipe, is about to take d_transition_m for incoming()
C30_Witness ==
    /\ locked["c"] = <<"d_transition_m", "pipe_m">>
    /\ lpc["p"] = "signal"
    /\ wants("p") = "d_transition_m"
    /\ locked["p"] = <<>>

-----------------------------------------------------------------------------
(* SpecCycle: the graph of the count and restart tests, built and started, *)
(* then paused, stopped and started again by its owner while the workers   *)
(* run; the source and the counters are reset as the restart test does.    *)
(* Every thread that can take a step is given one in the end.              *)

InitCycle ==
    /\ \E N \in 1..MaxN : Running("count", N)
    /\ NoSamples

NextCycle ==
    \/ GraphStart
    \/ GraphPause
    \/ GraphStop
    \/ GraphReset
    \/ StartStep
    \/ PauseStep
    \/ StopStep
    \/ StopJoin
    \/ Return
    \/ \E n \in FairNodes : WorkerBegin(n)
    \/ \E n \in FairNodes : WorkerExit(n)
    \/ \E n \in FairNodes : ProducerLoop(n)
    \/ \E n \in FairNodes : ConsumerLoop(n)
    \/ \E n \in FairNodes : Wake(n)
    \/ \E n \in FairNodes : ProducerProduce(n)
    \/ \E n \in FairNodes : WorkerNotify(n)
    \/ \E n \in FairNodes : ConsumerVisit(n)
    \/ \E n \in FairNodes : TransformerPush(n)

SpecCycle ==
    /\ InitCycle
    /\ [][NextCycle]_vars
    /\ WF_vars(Main)
    /\ \A n \in FairNodes : WF_vars(Worker(n))

\* C31: a worker whose node was transitioned to stopped leaves its loop in
\* the end, and a worker that has read its state as stopped is at the top
\* of the loop or out of it, in no produce() and in no ready(), whether or
\* not packets wait at its inpins.
C31_StoppedWorkerExits ==
    /\ \A n \in FairNodes :
          (d_state_a[n] = "stopped" /\ n \in d_threads) ~> (wpc[n] \in {"exited", "none"})
    /\ [](\A n \in FairNodes :
             ws[n] = "stopped" => wpc[n] \in {"top", "exited", "none", "begin"})

\* the worker of the consumer has left its loop with a packet still in the
\* pipe of its inpin
C31_Witness ==
    /\ wpc["c"] = "exited"
    /\ ws["c"] = "stopped"
    /\ inpin_peek(Heap, input("c", 0))

\* every packet the source has left has reached the counter at the end
Drained ==
    /\ n_left["p"] = 0
    /\ \A id \in DOMAIN pipes : length(pipes[id]) = 0
    /\ \A n \in FairNodes : held[n] = NoPacket /\ wpc[n] \notin {"notify", "tpush"}

\* C32: once a start() has returned, every node is started and has a
\* worker; a worker of a started node is inside its loop, not at its end
\* and not with a stopped s left from before; and after the last start()
\* the packets the source has left all reach the counter.
C32_RestartRuns ==
    /\ []((op = "idle" /\ last = "start") =>
             \A n \in FairNodes : d_state_a[n] = "started" /\ n \in d_threads)
    /\ [](\A n \in FairNodes :
             (n \in d_threads /\ d_state_a[n] = "started") =>
                 /\ wpc[n] \notin {"exited", "none"}
                 /\ wpc[n] = "begin" \/ ws[n] # "stopped")
    /\ (op = "idle" /\ last = "start" /\ ncalls = MaxCalls) ~> Drained

\* stop() has returned with every packet counted, the source and the
\* counters were reset, and the start() that follows has started every
\* node: the new workers have carried all packets of the second run to the
\* counter
C32_Witness ==
    /\ last = "stop"
    /\ call = <<"reset">>
    /\ op = "start" /\ todo = <<>>
    /\ tlog = start_order
    /\ received["c"] = r
    /\ Drained

\* C33: a consumer whose worker has read paused is at the top of its loop
\* or waits, in no ready(); while it waits, whatever arrives, the packets
\* in the pipe of its inpin stay where they are, new ones behind them; and
\* once the node is started a waiting worker with packets reaches its
\* for loop with no further push, unless the node leaves started again.
C33_PausedKeepsPackets ==
    /\ [](\A n \in {"t", "c"} :
             (ws[n] = "paused" /\ wpc[n] \notin {"begin", "none", "exited"}) =>
                 wpc[n] \in {"top", "pwait"})
    /\ [][\A n \in {"t", "c"} :
             wpc[n] = "pwait" =>
                 LET old == pipes[pin_pipe[input(n, 0)]].d_packets
                     new == pipes'[pin_pipe'[input(n, 0)]].d_packets
                 IN  /\ Len(new) >= Len(old)
                     /\ SubSeq(new, 1, Len(old)) = old]_vars
    /\ \A n \in {"t", "c"} :
          (wpc[n] = "pwait" /\ d_state_a[n] = "started" /\ incoming(n))
             ~> (wpc[n] = "visit" \/ d_state_a[n] # "started")

\* the counter waits, paused, with a packet in its pipe and the
\* notification of that packet's incoming() not yet looked at
C33_Witness ==
    /\ wpc["c"] = "pwait"
    /\ d_state_a["c"] = "paused"
    /\ inpin_peek(Heap, input("c", 0))
    /\ woken["c"]
    /\ op = "idle"

\* C34: in SpecLocks the owner holds d_transition_m from the write of the
\* state to the notify; each write is followed by one call of the hook of
\* the state written, and that by the notify; and whenever the consumer's
\* worker reads a state other than the one it had, the hook of that state
\* is the last one that was called.
C34_TransitionUnderLock ==
    /\ [](lpc["main"] \in {"write", "hook", "notify"} =>
             locked["main"] = <<"d_transition_m">>)
    /\ [][/\ d_state_a' # d_state_a =>
               lpc["main"] = "write" /\ lpc'["main"] = "hook"
          /\ hooks' # hooks =>
               /\ lpc["main"] = "hook" /\ lpc'["main"] = "notify"
               /\ hooks' = Append(hooks, d_state_a["c"])
          /\ (lpc["main"] = "notify" /\ lpc'["main"] # "notify") =>
               hooks[Len(hooks)] = d_state_a["c"]
          /\ ws'["c"] # ws["c"] =>
               /\ hooks # <<>>
               /\ hooks[Len(hooks)] = ws'["c"]
               /\ lpc["main"] \notin {"write", "hook", "notify"}]_vars

\* the owner is inside paused(), holding d_transition_m, while the worker,
\* notified by an incoming(), waits to take d_transition_m to look at the
\* state
C34_Witness ==
    /\ lpc["main"] = "hook"
    /\ d_state_a["c"] = "paused"
    /\ ws["c"] = "started"
    /\ lpc["c"] = "swaiting"
    /\ woken["c"]
    /\ wants("c") = "d_transition_m"

-----------------------------------------------------------------------------
(* SpecVisit: the worker "w" of a started consumer with two inpins, the    *)
(* adder of the adder test, with both inpins wired or with the second one  *)
(* left detached. Pushers feed it, a popper empties its output. The lock   *)
(* on d_transition_m and every ready(i) are written down.                  *)

InitVisit ==
    /\ \E x \in {"adder", "half"} : Running(x, 0)
    /\ now = 0
    /\ NoClock
    /\ NoStream
    /\ locked = [th \in Threads |-> <<>>]
    /\ lpc = [th \in Threads |-> "none"]
    /\ hooks = <<>>

\* consumer<T>::operator()() of a started consumer up to the for loop: the
\* unique_lock on d_transition_m, the predicate of the wait, the wait
\* itself, which gives the mutex up, the wake-up, which takes it again, and
\* the end of the scope of the lock
ConsumerWait(n) ==
    /\ Alive(n)
    /\ wpc[n] \in {"top", "spred", "swait"}
    /\ ws[n] = "started"
    /\ CASE wpc[n] = "top" ->
              /\ Free("d_transition_m")
              /\ locked' = lock("w", "d_transition_m")
              /\ wpc' = [wpc EXCEPT ![n] = "spred"]
              /\ UNCHANGED woken
         [] wpc[n] = "spred" ->
              /\ locked' = unlock("w", 1)
              /\ wpc' = [wpc EXCEPT ![n] = IF wait_predicate(n) THEN "visit" ELSE "swait"]
              /\ UNCHANGED woken
         [] OTHER ->
              /\ woken[n]
              /\ Free("d_transition_m")
              /\ woken' = [woken EXCEPT ![n] = FALSE]
              /\ locked' = lock("w", "d_transition_m")
              /\ wpc' = [wpc EXCEPT ![n] = "spred"]
    /\ UNCHANGED <<live, pipevars, now, clockvars, streamvars, lpc, hooks, obsvars,
                   callervars, graphvars, nodevars, ws, held, mainvars>>

\* a for loop that would call ready(i) for every inpin, without the peek
ConsumerForUnchecked(n) ==
    /\ Alive(n)
    /\ wpc[n] \in {"visit", "visit1"}
    /\ Len(hooks) < MaxHooks
    /\ LET i     == IF wpc[n] = "visit" THEN 0 ELSE 1
           fires == \A j \in 0..(ins(n) - 1) : inpin_peek(Heap, input(n, j))
           terms == [j \in 0..(ins(n) - 1) |-> inpin_pop_result(Heap, input(n, j))]
           sum_up == packet(adder_sum(terms, ins(n) - 1))
           h1    == adder_pops(Heap, n, ins(n))
       IN  /\ hooks' = Append(hooks, i)
           /\ pipes' = IF fires THEN outpin_push(h1, output(n, 0), sum_up).pipes ELSE pipes
           /\ woken' = IF fires /\ outpin_push_inpin_p(h1, output(n, 0), sum_up) # NoPin
                       THEN notified(outpin_push_inpin_p(h1, output(n, 0), sum_up))
                       ELSE woken
           /\ wpc' = [wpc EXCEPT ![n] = IF i + 1 < ins(n) THEN "visit1" ELSE "top"]
    /\ UNCHANGED <<live, pin_pipe, tsize, now, clockvars, streamvars, locked, lpc, obsvars,
                   callervars, graphvars, nodevars, ws, held, mainvars>>

\* the for loop of consumer<T>::operator()(), one inpin a step: the peek of
\* input(i) and, if it holds, ready(i) to its end, here adder::ready
ConsumerFor(n) ==
    /\ Alive(n)
    /\ wpc[n] \in {"visit", "visit1"}
    /\ Len(hooks) < MaxHooks
    /\ LET i     == IF wpc[n] = "visit" THEN 0 ELSE 1
           p     == inpin_peek(Heap, input(n, i))
           fires == p /\ \A j \in 0..(ins(n) - 1) : inpin_peek(Heap, input(n, j))
           terms == [j \in 0..(ins(n) - 1) |-> inpin_pop_result(Heap, input(n, j))]
           sum_up == packet(adder_sum(terms, ins(n) - 1))
           h1    == adder_pops(Heap, n, ins(n))
       IN  /\ hooks' = IF p THEN Append(hooks, i) ELSE hooks
           /\ pipes' = IF fires THEN outpin_push(h1, output(n, 0), sum_up).pipes ELSE pipes
           /\ woken' = IF fires /\ outpin_push_inpin_p(h1, output(n, 0), sum_up) # NoPin
                       THEN notified(outpin_push_inpin_p(h1, output(n, 0), sum_up))
                       ELSE woken
           /\ wpc' = [wpc EXCEPT ![n] = IF i + 1 < ins(n) THEN "visit1" ELSE "top"]
    /\ UNCHANGED <<live, pin_pipe, tsize, now, clockvars, streamvars, locked, lpc, obsvars,
                   callervars, graphvars, nodevars, ws, held, mainvars>>

NextVisit ==
    \/ \E o \in {output("p", 0), output("q", 0)} : FlowPush(o)
    \/ FlowPop(input("c", 0))
    \/ ConsumerWait("adder")
    \/ ConsumerFor("adder")

SpecVisit == InitVisit /\ [][NextVisit]_vars

\* the inpin the for loop of the adder's worker is at
VisitAt == IF wpc["adder"] = "visit" THEN 0 ELSE 1

\* C35: the worker enters its for loop only out of a wait predicate that
\* found a packet, goes from inpin 0 to inpin 1 and back to the top, calls
\* ready(i) at inpin i if and only if that inpin is attached and its pipe
\* holds a packet at that moment, and holds no mutex while it does.
C35_VisitsInOrder ==
    /\ [](wpc["adder"] \in {"visit", "visit1"} => locked["w"] = <<>>)
    /\ [][/\ (wpc'["adder"] = "visit" /\ wpc["adder"] # "visit") =>
               wpc["adder"] = "spred" /\ incoming("adder")
          /\ (wpc["adder"] = "visit" /\ wpc'["adder"] # "visit") =>
               wpc'["adder"] = "visit1"
          /\ (wpc["adder"] = "visit1" /\ wpc'["adder"] # "visit1") =>
               wpc'["adder"] = "top"
          /\ (wpc'["adder"] = "visit1" /\ wpc["adder"] # "visit1") =>
               wpc["adder"] = "visit"
          /\ hooks' # hooks =>
               /\ wpc["adder"] \in {"visit", "visit1"}
               /\ hooks' = Append(hooks, VisitAt)
               /\ pin_pipe[input("adder", VisitAt)] # NoPipe
               /\ length(pipes[pin_pipe[input("adder", VisitAt)]]) > 0
               /\ locked["w"] = <<>>
          /\ (wpc["adder"] \in {"visit", "visit1"} /\ wpc'["adder"] # wpc["adder"]
                /\ inpin_peek(Heap, input("adder", VisitAt))) =>
               hooks' = Append(hooks, VisitAt)]_vars

\* ready(0) was called and then ready(1) was not: the worker is back at
\* the top with a packet at inpin 0 and the detached inpin 1 passed over
C35_Witness ==
    /\ wpc["adder"] = "top"
    /\ hooks = <<0>>
    /\ pin_pipe[input("adder", 1)] = NoPipe
    /\ inpin_peek(Heap, input("adder", 0))

PauseReturned == op = "idle" /\ last = "pause" /\ "p" \in d_threads

\* C39: in SpecCycle, once pause() has returned, the producer p does not
\* come to a call of produce() again: it makes at most the call it stood
\* before when it was paused, having read started; it then waits on its
\* condition variable unless the owner calls again; and a producer that
\* waits while its node is started comes to a call of produce().
C39_PausedProducerBlocks ==
    /\ [][(PauseReturned /\ PauseReturned') =>
            /\ ~(wpc["p"] # "produce" /\ wpc'["p"] = "produce")
            /\ (wpc["p"] = "produce" /\ wpc'["p"] # "produce") => ws["p"] = "started"
            /\ (wpc["p"] = "pwait" => wpc'["p"] = "pwait")]_vars
    /\ PauseReturned ~> (wpc["p"] = "pwait" \/ ~PauseReturned)
    /\ (wpc["p"] = "pwait" /\ d_state_a["p"] = "started") ~>
          (wpc["p"] = "produce" \/ d_state_a["p"] # "started")

\* pause() has returned and p, which had read started before it was
\* paused, is about to call produce() with a packet left to push
C39_Witness ==
    /\ PauseReturned
    /\ d_state_a["p"] = "paused"
    /\ ws["p"] = "started"
    /\ wpc["p"] = "produce"
    /\ n_left["p"] > 0

-----------------------------------------------------------------------------
(* SpecRemove: the running graph of SpecCycle, whose owner also removes    *)
(* nodes between two calls, at a moment when no worker is inside a pin:    *)
(* the consumers wait and the source has run dry or waits too.             *)

\* the worker of m is not inside a pin and will not enter one unnotified
AtRest(m) ==
    \/ Waiting(m)
    \/ m \in d_producers /\ n_left[m] = 0 /\ wpc[m] \in {"top", "produce"}
    \/ wpc[m] \in {"exited", "none"}

\* graph::remove(name_r) on a graph that has been started: sever, erase
\* from the map of nodes and from connections; d_threads is not touched
GraphRemove(n) ==
    /\ status = "running"
    /\ phase = "run"
    /\ op = "idle"
    /\ find(n)
    /\ \A m \in Nodes : AtRest(m)
    /\ call' = <<"remove", n>>
    /\ LET out == sever(Heap, n) IN
         /\ pipes' = out.pipes
         /\ pin_pipe' = out.pin_pipe
         /\ status' = After(out)
         /\ ret' = out.status
         /\ IF out.status = "returned"
            THEN /\ d_producers' = d_producers \ {n}
                 /\ d_transformers' = d_transformers \ {n}
                 /\ d_consumers' = d_consumers \ {n}
                 /\ connections' = [m \in DOMAIN connections \ {n} |-> connections[m]]
            ELSE UNCHANGED <<d_producers, d_transformers, d_consumers, connections>>
    /\ UNCHANGED <<tsize, samplevars, pre, pushed, popped, nconnect, d_threads, nodevars,
                   workervars, mainvars>>

NextRemove ==
    \/ GraphStart
    \/ GraphPause
    \/ GraphStop
    \/ GraphReset
    \/ \E n \in FairNodes : GraphRemove(n)
    \/ StartStep
    \/ PauseStep
    \/ StopStep
    \/ StopJoin
    \/ Return
    \/ \E n \in FairNodes : WorkerBegin(n)
    \/ \E n \in FairNodes : WorkerExit(n)
    \/ \E n \in FairNodes : ProducerLoop(n)
    \/ \E n \in FairNodes : ConsumerLoop(n)
    \/ \E n \in FairNodes : Wake(n)
    \/ \E n \in FairNodes : ProducerProduce(n)
    \/ \E n \in FairNodes : WorkerNotify(n)
    \/ \E n \in FairNodes : ConsumerVisit(n)
    \/ \E n \in FairNodes : TransformerPush(n)

SpecRemove == InitCycle /\ [][NextRemove]_vars

\* C40: every node with an entry in d_threads is in the graph, and when
\* stop() has returned d_threads is empty.
C40_WorkersOfPresentNodes ==
    /\ d_threads \subseteq Added
    /\ (op = "idle" /\ last = "stop") => d_threads = {}

-----------------------------------------------------------------------------
(* The pins again, under SpecPins.                                         *)

\* C37: every call of outpin.connect returns: the thread is neither left
\* waiting for the pipe's mutex it holds itself nor lost on a pipe
\* reference that was released.
C37_ConnectReturns ==
    call[1] = "connect" => (ret = "returned" /\ status = "running")

\* C38: the input() of every pipe is the outpin that holds the pipe and its
\* output() is the inpin that holds it, or none if no such pin holds it,
\* after every call that returned.
C38_BackReferencesAgree ==
    status = "running" => \A id \in DOMAIN pipes :
       /\ pipes[id].d_input_p =
             IF \E o \in Outpins : pin_pipe[o] = id
             THEN CHOOSE o \in Outpins : pin_pipe[o] = id
             ELSE NoPin
       /\ pipes[id].d_output_p =
             IF \E i \in Inpins : pin_pipe[i] = id
             THEN CHOOSE i \in Inpins : pin_pipe[i] = id
             ELSE NoPin


=============================================================================
